---- MODULE Spec2Model ----
(***************************************************************************)
(* The orchestration core of the Agentic Developer Platform:               *)
(*   app/utils/approval_store.py     the in-memory pending-approval store  *)
(*   app/orchestrator/orchestrator.py run_orchestration,                   *)
(*                                    run_orchestration_continue,          *)
(*                                    _run_git_and_finish                  *)
(*   app/skills/validation_skill.py   validate_db_design                   *)
(*   app/models/schemas.py            the pydantic models                  *)
(*                                                                         *)
(* The FastAPI endpoints of app/main.py are plain `def` handlers, so each  *)
(* request runs on a worker thread of the server's pool.  A worker is      *)
(* modelled as a slot of `threads`; it runs one call at a time and keeps   *)
(* the returned value until it picks up the next request.  The steps of a  *)
(* call are cut at its accesses to the shared store.                       *)
(***************************************************************************)
EXTENDS Integers, Sequences, FiniteSets, TLC

\* ------------------------------------------------------------------ bounds
\* Worker threads of the server that handle requests concurrently.
MaxThreads == 2
\* Approval tokens the store issues before no further pause is modelled.
MaxTokens == 2

\* Requests the server receives in one run of the model.
MaxCalls == 4

Threads == 1..MaxThreads
Tokens == 1..MaxTokens
\* A token string no create_pending_approval call has returned.
UnknownToken == 0

\* ------------------------------------------------------- Optional[...] values
None == <<>>
Some(v) == <<v>>
\* Python truthiness of an Optional[str]: None and "" are falsy.
StrTruthy(o) == o # None /\ o[1] # ""

\* --------------------------------------------------------------- inputs
Prompts == {"Set up backend for a SaaS app"}
Languages == {None, Some("Go")}
\* OrchestrateContinueRequest.language: absent, a language, or the empty string.
ContinueLanguages == Languages \cup {Some("")}
ErrorTexts == {"watsonx error"}

\* ApprovalSubmitRequest bodies the reviewer may post (approved, comments, approved_by).
DecisionInputs ==
    { [approved |-> TRUE, comments |-> None, approved_by |-> Some("alice")],
      [approved |-> FALSE, comments |-> Some("too risky"), approved_by |-> Some("alice")] }

\* ---------------------------------------------------------- pydantic models
\* A model instance carries its class in `cls`; model_dump yields the plain
\* dict (no class), keyed by field name.
Entity(n, d) == [cls |-> "Entity", name |-> n, description |-> d]
Relationship(f, t, ty, th) ==
    [cls |-> "Relationship", from_entity |-> f, to |-> t, type |-> ty, through |-> th]
RelationshipTypes == {"one-to-one", "one-to-many", "many-to-many"}
Column(n, ty, cs) == [cls |-> "Column", name |-> n, type |-> ty, constraints |-> cs]
Table(n, cols) == [cls |-> "Table", name |-> n, columns |-> cols]
RiskLevels == {"LOW", "MEDIUM", "HIGH"}

\* Values the LLM-backed stages may return (already coerced to their schema).
ReqUsers ==
    [cls |-> "RequirementsOutput",
     entities |-> << Entity("User", "a user"), Entity("Organization", "an org") >>,
     relationships |-> << Relationship("User", "Organization", "many-to-many", Some("Membership")) >>,
     assumptions |-> << "Roles are predefined" >>,
     out_of_scope |-> << "Authentication" >>]
RequirementsValues == {ReqUsers}

DesignValid ==
    [cls |-> "DatabaseDesignOutput",
     tables |-> << Table("users", << Column("id", "UUID", << "PRIMARY KEY" >>) >>) >>,
     normalization_level |-> "3NF",
     design_rationale |-> << "Users table follows 3NF" >>,
     sql_schema |-> "CREATE TABLE users (id UUID PRIMARY KEY);"]
DesignInvalid ==
    [cls |-> "DatabaseDesignOutput",
     tables |-> << >>,
     normalization_level |-> "2NF",
     design_rationale |-> << >>,
     sql_schema |-> "   "]
DesignValues == {DesignValid, DesignInvalid}

ReviewOf(risk, req) ==
    [cls |-> "ReviewOutput", assessment |-> "reviewed", issues |-> << >>,
     risk_level |-> risk, approval_required |-> req]
\* The contract "approval_required whenever risk is MEDIUM or HIGH" is the
\* capability's, not the core's: a HIGH review without the flag is a possible
\* stage output.
ReviewValues == {ReviewOf("LOW", FALSE), ReviewOf("HIGH", TRUE), ReviewOf("HIGH", FALSE)}

StrategyMain ==
    [cls |-> "GitStrategyOutput", branch_name |-> "feature/init-backend",
     base_branch |-> "main", repository_structure |-> << "src/", "README.md" >>,
     action |-> "create branch",
     files |-> << [cls |-> "RepoFile", path |-> "README.md", content |-> "# app"] >>]
StrategyValues == {StrategyMain}

\* A stage call either raises (None) or returns one of its values.
Outcomes(values) == {None} \cup {Some(v) : v \in values}
\* What the four LLM-backed stages of one run answer, and the error text of the one
\* that raises; a stage that follows one that raised is not called and has no outcome.
StageOutcomes ==
    { o \in
        { [requirements |-> rq, design |-> ds, review |-> rv, git |-> gt, err |-> e] :
            rq \in Outcomes(RequirementsValues), ds \in Outcomes(DesignValues),
            rv \in Outcomes(ReviewValues), gt \in Outcomes(StrategyValues), e \in ErrorTexts } :
        /\ o.requirements = None => o.design = None
        /\ o.design = None => o.review = None
        /\ o.review = None => o.git = None }

\* ------------------------------------------------- model_dump / model_validate
dump_Entity(e) == [name |-> e.name, description |-> e.description]
\* model_dump() is called without by_alias: the key is the field name.
dump_Relationship(r) ==
    [from_entity |-> r.from_entity, to |-> r.to, type |-> r.type, through |-> r.through]
dump_Requirements(m) ==
    [entities |-> [i \in 1..Len(m.entities) |-> dump_Entity(m.entities[i])],
     relationships |-> [i \in 1..Len(m.relationships) |-> dump_Relationship(m.relationships[i])],
     assumptions |-> m.assumptions, out_of_scope |-> m.out_of_scope]
dump_Column(c) == [name |-> c.name, type |-> c.type, constraints |-> c.constraints]
dump_Table(t) == [name |-> t.name, columns |-> [i \in 1..Len(t.columns) |-> dump_Column(t.columns[i])]]
dump_Design(m) ==
    [tables |-> [i \in 1..Len(m.tables) |-> dump_Table(m.tables[i])], normalization_level |-> m.normalization_level,
     design_rationale |-> m.design_rationale, sql_schema |-> m.sql_schema]
dump_Review(m) ==
    [assessment |-> m.assessment, issues |-> m.issues, risk_level |-> m.risk_level,
     approval_required |-> m.approval_required]
dump_RepoFile(f) == [path |-> f.path, content |-> f.content]
dump_Strategy(m) ==
    [branch_name |-> m.branch_name, base_branch |-> m.base_branch,
     repository_structure |-> m.repository_structure, action |-> m.action,
     files |-> [i \in 1..Len(m.files) |-> dump_RepoFile(m.files[i])]]

HasKeys(d, ks) == ks \subseteq DOMAIN d
AllOk(s) == \A i \in 1..Len(s) : s[i] # None
Unwrap(s) == [i \in 1..Len(s) |-> s[i][1]]

\* model_validate returns Some(model), or None where pydantic raises ValidationError.
validate_Entity(d) ==
    IF HasKeys(d, {"name", "description"}) THEN Some(Entity(d.name, d.description)) ELSE None
\* Mutant: without populate_by_name only the alias "from" is accepted.
validate_Relationship_alias_only(d) ==
    IF HasKeys(d, {"from", "to", "type"}) /\ d.type \in RelationshipTypes
    THEN Some(Relationship(d["from"], d.to, d.type,
                           IF "through" \in DOMAIN d THEN d.through ELSE None))
    ELSE None

\* Relationship.from_entity has alias "from"; populate_by_name accepts the field name too.
validate_Relationship(d) ==
    LET hasFrom == "from" \in DOMAIN d \/ "from_entity" \in DOMAIN d
        f == IF "from" \in DOMAIN d THEN d["from"] ELSE d["from_entity"]
    IN IF hasFrom /\ HasKeys(d, {"to", "type"}) /\ d.type \in RelationshipTypes
       THEN Some(Relationship(f, d.to, d.type,
                              IF "through" \in DOMAIN d THEN d.through ELSE None))
       ELSE None
validate_Requirements(d) ==
    IF ~HasKeys(d, {"entities", "relationships", "assumptions", "out_of_scope"}) THEN None
    ELSE LET es == [i \in 1..Len(d.entities) |-> validate_Entity(d.entities[i])]
             rs == [i \in 1..Len(d.relationships) |-> validate_Relationship(d.relationships[i])]
         IN IF AllOk(es) /\ AllOk(rs)
            THEN Some([cls |-> "RequirementsOutput", entities |-> Unwrap(es),
                       relationships |-> Unwrap(rs), assumptions |-> d.assumptions,
                       out_of_scope |-> d.out_of_scope])
            ELSE None
validate_Column(d) ==
    IF HasKeys(d, {"name", "type"})
    THEN Some(Column(d.name, d.type, IF "constraints" \in DOMAIN d THEN d.constraints ELSE << >>))
    ELSE None
validate_Table(d) ==
    IF ~HasKeys(d, {"name", "columns"}) THEN None
    ELSE LET cs == [i \in 1..Len(d.columns) |-> validate_Column(d.columns[i])]
         IN IF AllOk(cs) THEN Some(Table(d.name, Unwrap(cs))) ELSE None
validate_Design(d) ==
    IF ~HasKeys(d, {"tables", "design_rationale", "sql_schema"}) THEN None
    ELSE LET ts == [i \in 1..Len(d.tables) |-> validate_Table(d.tables[i])]
         IN IF AllOk(ts)
            THEN Some([cls |-> "DatabaseDesignOutput", tables |-> Unwrap(ts),
                       normalization_level |->
                           IF "normalization_level" \in DOMAIN d THEN d.normalization_level ELSE "3NF",
                       design_rationale |-> d.design_rationale, sql_schema |-> d.sql_schema])
            ELSE None
validate_Review(d) ==
    IF HasKeys(d, {"assessment", "risk_level", "approval_required"}) /\ d.risk_level \in RiskLevels
    THEN Some([cls |-> "ReviewOutput", assessment |-> d.assessment,
               issues |-> IF "issues" \in DOMAIN d THEN d.issues ELSE << >>,
               risk_level |-> d.risk_level, approval_required |-> d.approval_required])
    ELSE None

\* ------------------------------------------------------- validate_db_design
\* dict.get(key): Some(value), or None for a missing key.
Get(d, k) == IF k \in DOMAIN d THEN Some(d[k]) ELSE None
\* Mutant: the value is compared with "" without strip().
BlankStrings_unstripped == {""}
\* Strings of the model that str.strip() reduces to "".
BlankStrings == {"", " ", "   "}
\* `not d.get(key)`: the key is missing, or its value is "" (a string) or [] (a list).
FalsyStr(o) == o = None \/ o[1] = ""
FalsySeq(o) == o = None \/ o[1] = << >>
\* str() of d.get(key, default) inside an f-string; a missing key without default prints None.
Fmt(o, default) == IF o = None THEN default ELSE o[1]

required_keys == << "tables", "normalization_level", "design_rationale", "sql_schema" >>

\* Mutant: the key loop stops at the first missing key.
MissingKeyIssues_first_only(d, i) ==
    IF \E k \in i..Len(required_keys) : required_keys[k] \notin DOMAIN d
    THEN << "Missing required key: " \o
            required_keys[CHOOSE k \in i..Len(required_keys) :
                /\ required_keys[k] \notin DOMAIN d
                /\ \A l \in i..(k - 1) : required_keys[l] \in DOMAIN d] >>
    ELSE << >>

RECURSIVE MissingKeyIssues(_, _)
MissingKeyIssues(d, i) ==
    IF i > Len(required_keys) THEN << >>
    ELSE (IF required_keys[i] \notin DOMAIN d
          THEN << "Missing required key: " \o required_keys[i] >> ELSE << >>)
         \o MissingKeyIssues(d, i + 1)

RECURSIVE ColumnIssues(_, _, _)
ColumnIssues(table, cols, j) ==
    IF j > Len(cols) THEN << >>
    ELSE LET col == cols[j]
             tname == Fmt(Get(table, "name"), "None")
         IN (IF FalsyStr(Get(col, "name"))
             THEN << "Column " \o ToString(j) \o " in table '" \o tname \o "' is missing a name" >>
             ELSE << >>)
            \o (IF FalsyStr(Get(col, "type"))
                THEN << "Column '" \o Fmt(Get(col, "name"), ToString(j)) \o "' in table '"
                        \o tname \o "' is missing a type" >>
                ELSE << >>)
            \o ColumnIssues(table, cols, j + 1)

RECURSIVE TableIssues(_, _)
TableIssues(tables, i) ==
    IF i > Len(tables) THEN << >>
    ELSE LET table == tables[i]
         IN (IF FalsyStr(Get(table, "name"))
             THEN << "Table " \o ToString(i) \o " is missing a name" >> ELSE << >>)
            \o (IF FalsySeq(Get(table, "columns"))
                THEN << "Table '" \o Fmt(Get(table, "name"), ToString(i))
                        \o "' has no columns defined" >>
                ELSE ColumnIssues(table, table.columns, 1))
            \o TableIssues(tables, i + 1)

\* Mutant: a wrong normalization level ends the validation at once.
validate_db_design_stops_at_normalization(db_design) ==
    LET issues ==
            MissingKeyIssues(db_design, 1)
            \o (IF Get(db_design, "normalization_level") # Some("3NF")
                THEN << "Schema is not explicitly marked as 3NF" >>
                ELSE (IF FalsySeq(Get(db_design, "tables"))
                      THEN << "No tables defined" >>
                      ELSE TableIssues(db_design.tables, 1))
                     \o (IF FalsyStr(Get(db_design, "sql_schema")) \/ db_design.sql_schema \in BlankStrings
                         THEN << "SQL schema is empty" >> ELSE << >>))
    IN [is_valid |-> Len(issues) = 0, issues |-> issues]

validate_db_design(db_design) ==
    LET issues ==
            MissingKeyIssues(db_design, 1)
            \o (IF Get(db_design, "normalization_level") # Some("3NF")
                THEN << "Schema is not explicitly marked as 3NF" >> ELSE << >>)
            \o (IF FalsySeq(Get(db_design, "tables"))
                THEN << "No tables defined" >>
                ELSE TableIssues(db_design.tables, 1))
            \o (IF FalsyStr(Get(db_design, "sql_schema")) \/ db_design.sql_schema \in BlankStrings
                THEN << "SQL schema is empty" >> ELSE << >>)
    IN [is_valid |-> Len(issues) = 0, issues |-> issues]

\* ------------------------------------------------------------------ state
VARIABLES
    heap,                \* PendingApprovalState objects ever created, by the token they were created with
    pending_states,      \* _pending_states: token -> reference to its object in heap
    approval_decisions,  \* _approval_decisions: token -> ApprovalDecision
    threads,             \* the worker threads: the call each runs, its locals, its return value
    branches,            \* history: per token, how often a continue call executed create_branch
    calls                \* history: the number of requests received so far

store == << heap, pending_states, approval_decisions >>
vars == << heap, pending_states, approval_decisions, threads, branches, calls >>

\* Tokens create_pending_approval has returned so far (uuid4 values are taken as fresh).
Issued == DOMAIN heap
\* Mutant: the token is derived from the number of states pending now.
NextToken_from_pending == Cardinality(DOMAIN pending_states) + 1
NextToken == Cardinality(Issued) + 1

\* --------------------------------------------------------- approval_store.py
ApprovalDecision(approved, comments, approved_by) ==
    [approved |-> approved, comments |-> comments, approved_by |-> approved_by]

\* Mutant: the state is created without the language of the request.
PendingApprovalState_drops_language(token, user_prompt, requirements, database_design, review, language) ==
    [approval_token |-> token, user_prompt |-> user_prompt, requirements |-> requirements,
     database_design |-> database_design, review |-> review, language |-> None,
     decision |-> None]
PendingApprovalState(token, user_prompt, requirements, database_design, review, language) ==
    [approval_token |-> token, user_prompt |-> user_prompt, requirements |-> requirements,
     database_design |-> database_design, review |-> review, language |-> language,
     decision |-> None]

\* dict.get(token): a reference to the stored object, or None.
get_pending_state(ps, approval_token) ==
    IF approval_token \in DOMAIN ps THEN Some(ps[approval_token]) ELSE None

get_approval_decision(hp, ps, ad, approval_token) ==
    LET state == get_pending_state(ps, approval_token)
    IN IF state # None /\ hp[state[1]].decision # None
       THEN hp[state[1]].decision
       ELSE IF approval_token \in DOMAIN ad THEN Some(ad[approval_token]) ELSE None

\* Mutant: consuming one token empties the whole dict of pending states.
consume_pending_state_pops_all(ps, approval_token) == << >>

\* dict.pop(token, None): the dict without the key.
consume_pending_state(ps, approval_token) ==
    [t \in DOMAIN ps \ {approval_token} |-> ps[t]]

\* ------------------------------------------------------------ result values
OrchestrationResult(status, stage, approval_token, requirements, database_design, review, approval, git, issues) ==
    [status |-> status, stage |-> stage, approval_token |-> approval_token,
     requirements |-> requirements, database_design |-> database_design, review |-> review,
     approval |-> approval, git |-> git, issues |-> issues]

ApprovalResponse(decision) ==
    [cls |-> "ApprovalResponse", approved |-> decision.approved, comments |-> decision.comments,
     approved_by |-> decision.approved_by]

InvalidTokenMessage == "Invalid or expired approval token"
NoDecisionMessage == "No approval decision recorded. Call POST /approval first."
RejectedMessage == "Design rejected by reviewer"
RecordedMessage == "Approval recorded. Call POST /orchestrate/continue with this token to continue."

\* An exception that leaves the handler (the endpoint answers HTTP 500).
Raised(text) ==
    OrchestrationResult("RAISED", None, None, None, None, None, None, None, Some(<< text >>))

\* ------------------------------------------------------------- github_skill.py
\* The simulated branch creation; its timestamp field is left out.
create_branch(repo_name, branch_name, base_branch) ==
    [repository |-> repo_name, branch |-> branch_name, base_branch |-> base_branch,
     status |-> "created", url |-> "https://github.com/" \o repo_name \o "/tree/" \o branch_name,
     simulated |-> TRUE]

\* ------------------------------------------------------------- orchestrator.py
\* str.lower() on the language strings of the model.
\* Mutant: the language keeps the letter case it was given in.
Lower_keeps_case(s) == s
\* str.lower() on the language strings the requests of the model carry.
Lower(s) ==
    CASE s = "Go" -> "go" [] s = "GO" -> "go"
      [] s = "Python" -> "python" [] s = "PYTHON" -> "python"
      [] s = "Node" -> "node" [] s = "NodeJS" -> "nodejs"
      [] s = "Java" -> "java" [] s = "Rust" -> "rust"
      [] OTHER -> s

framework_map(lang) ==
    CASE lang = "python" -> Some("fastapi")
      [] lang = "node" -> Some("express")
      [] lang = "nodejs" -> Some("express")
      [] lang = "java" -> Some("spring-boot")
      [] lang = "go" -> Some("gin")
      [] OTHER -> None

project_context(language) ==
    LET lang == Lower(IF StrTruthy(language) THEN language[1] ELSE "python")
        framework == IF framework_map(lang) # None THEN framework_map(lang)[1]
                     ELSE IF lang = "python" THEN "fastapi" ELSE lang
    IN [type |-> "backend", framework |-> framework, language |-> lang]

\* Mutant: the failure result leaves out the approval decision.
run_git_and_finish_drops_approval(requirements, db_design, review, approval, language, git, err) ==
    IF git = None
    THEN [result |-> OrchestrationResult("FAILED", Some("git_strategy"), None,
                        Some(requirements), Some(db_design), Some(review), None, None,
                        Some(<< "Failed to propose git strategy: " \o err >>)),
          log |-> << "propose_git_strategy" >>,
          context |-> Some(project_context(language))]
    ELSE LET git_strategy == git[1]
             git_result == create_branch("agentic-dev-platform", git_strategy.branch_name,
                                         git_strategy.base_branch)
         IN [result |-> OrchestrationResult("SUCCESS", None, None,
                            Some(requirements), Some(db_design), Some(review), approval,
                            Some([strategy |-> dump_Strategy(git_strategy),
                                  execution |-> git_result]),
                            None),
             log |-> << "propose_git_strategy", "create_branch" >>,
             context |-> Some(project_context(language))]

\* Mutant: a failed strategy proposal is swallowed and SUCCESS returned without git.
run_git_and_finish_swallows_failure(requirements, db_design, review, approval, language, git, err) ==
    IF git = None
    THEN [result |-> OrchestrationResult("SUCCESS", None, None,
                        Some(requirements), Some(db_design), Some(review), approval, None,
                        None),
          log |-> << "propose_git_strategy" >>,
          context |-> Some(project_context(language))]
    ELSE LET git_strategy == git[1]
             git_result == create_branch("agentic-dev-platform", git_strategy.branch_name,
                                         git_strategy.base_branch)
         IN [result |-> OrchestrationResult("SUCCESS", None, None,
                            Some(requirements), Some(db_design), Some(review), approval,
                            Some([strategy |-> dump_Strategy(git_strategy),
                                  execution |-> git_result]),
                            None),
             log |-> << "propose_git_strategy", "create_branch" >>,
             context |-> Some(project_context(language))]

\* Mutant: a failed strategy proposal is tried a second time before giving up.
run_git_and_finish_retries_proposal(requirements, db_design, review, approval, language, git, err) ==
    IF git = None
    THEN [result |-> OrchestrationResult("FAILED", Some("git_strategy"), None,
                        Some(requirements), Some(db_design), Some(review), approval, None,
                        Some(<< "Failed to propose git strategy: " \o err >>)),
          log |-> << "propose_git_strategy", "propose_git_strategy" >>,
          context |-> Some(project_context(language))]
    ELSE LET git_strategy == git[1]
             git_result == create_branch("agentic-dev-platform", git_strategy.branch_name,
                                         git_strategy.base_branch)
         IN [result |-> OrchestrationResult("SUCCESS", None, None,
                            Some(requirements), Some(db_design), Some(review), approval,
                            Some([strategy |-> dump_Strategy(git_strategy),
                                  execution |-> git_result]),
                            None),
             log |-> << "propose_git_strategy", "create_branch" >>,
             context |-> Some(project_context(language))]

\* _run_git_and_finish; git is the outcome of propose_git_strategy (None: it raised err).
\* Returns the result and the capabilities invoked, in order.
run_git_and_finish(requirements, db_design, review, approval, language, git, err) ==
    IF git = None
    THEN [result |-> OrchestrationResult("FAILED", Some("git_strategy"), None,
                        Some(requirements), Some(db_design), Some(review), approval, None,
                        Some(<< "Failed to propose git strategy: " \o err >>)),
          log |-> << "propose_git_strategy" >>,
          context |-> Some(project_context(language))]
    ELSE LET git_strategy == git[1]
             git_result == create_branch("agentic-dev-platform", git_strategy.branch_name,
                                         git_strategy.base_branch)
         IN [result |-> OrchestrationResult("SUCCESS", None, None,
                            Some(requirements), Some(db_design), Some(review), approval,
                            Some([strategy |-> dump_Strategy(git_strategy),
                                  execution |-> git_result]),
                            None),
             log |-> << "propose_git_strategy", "create_branch" >>,
             context |-> Some(project_context(language))]

\* run_orchestration, line 109: the gate is the review's approval_required flag alone.
needs_approval_by_risk(review) == review.risk_level # "LOW"
needs_approval(review) == review.approval_required

\* Mutant: the design failure returns without the Requirements already produced.
run_orchestration_drops_requirements(user_prompt, language, outs, token) ==
    LET idle == [review |-> None, created |-> None, context |-> None]
    IN
    IF outs.requirements = None
    THEN [result |-> OrchestrationResult("FAILED", Some("requirements"), None, None, None,
                        None, None, None,
                        Some(<< "Failed to interpret requirements: " \o outs.err >>)),
          log |-> << "interpret_requirements" >>] @@ idle
    ELSE LET requirements == outs.requirements[1] IN
    IF outs.design = None
    THEN [result |-> OrchestrationResult("FAILED", Some("database_design"), None,
                        None, None, None, None, None,
                        Some(<< "Failed to design database: " \o outs.err >>)),
          log |-> << "interpret_requirements", "design_database" >>] @@ idle
    ELSE LET db_design == outs.design[1]
             validation_result == validate_db_design(dump_Design(db_design)) IN
    IF ~validation_result.is_valid
    THEN [result |-> OrchestrationResult("FAILED", Some("validation"), None,
                        Some(requirements), Some(db_design), None, None, None,
                        Some(validation_result.issues)),
          log |-> << "interpret_requirements", "design_database", "validate_db_design" >>] @@ idle
    ELSE IF outs.review = None
    THEN [result |-> OrchestrationResult("FAILED", Some("review"), None,
                        Some(requirements), Some(db_design), None, None, None,
                        Some(<< "Failed to review design: " \o outs.err >>)),
          log |-> << "interpret_requirements", "design_database", "validate_db_design",
                     "review_database_design" >>] @@ idle
    ELSE LET review == outs.review[1] IN
    IF needs_approval(review)
    THEN [result |-> OrchestrationResult("PENDING_APPROVAL", Some("approval"), Some(token),
                        Some(requirements), Some(db_design), Some(review), None, None, None),
          log |-> << "interpret_requirements", "design_database", "validate_db_design",
                     "review_database_design", "create_pending_approval" >>,
          review |-> Some(review),
          created |-> Some(PendingApprovalState(token, user_prompt,
                              dump_Requirements(requirements), dump_Design(db_design),
                              dump_Review(review), language)),
          context |-> None]
    ELSE LET fin == run_git_and_finish(requirements, db_design, review, None, language,
                                       outs.git, outs.err)
         IN [result |-> fin.result,
             log |-> << "interpret_requirements", "design_database", "validate_db_design",
                        "review_database_design" >> \o fin.log,
             review |-> Some(review), created |-> None, context |-> fin.context]

\* Mutant: an invalid validation result does not stop the run.
run_orchestration_ignores_validation(user_prompt, language, outs, token) ==
    LET idle == [review |-> None, created |-> None, context |-> None]
    IN
    IF outs.requirements = None
    THEN [result |-> OrchestrationResult("FAILED", Some("requirements"), None, None, None,
                        None, None, None,
                        Some(<< "Failed to interpret requirements: " \o outs.err >>)),
          log |-> << "interpret_requirements" >>] @@ idle
    ELSE LET requirements == outs.requirements[1] IN
    IF outs.design = None
    THEN [result |-> OrchestrationResult("FAILED", Some("database_design"), None,
                        Some(requirements), None, None, None, None,
                        Some(<< "Failed to design database: " \o outs.err >>)),
          log |-> << "interpret_requirements", "design_database" >>] @@ idle
    ELSE LET db_design == outs.design[1]
             validation_result == validate_db_design(dump_Design(db_design)) IN
    IF ~validation_result.is_valid /\ FALSE
    THEN [result |-> OrchestrationResult("FAILED", Some("validation"), None,
                        Some(requirements), Some(db_design), None, None, None,
                        Some(validation_result.issues)),
          log |-> << "interpret_requirements", "design_database", "validate_db_design" >>] @@ idle
    ELSE IF outs.review = None
    THEN [result |-> OrchestrationResult("FAILED", Some("review"), None,
                        Some(requirements), Some(db_design), None, None, None,
                        Some(<< "Failed to review design: " \o outs.err >>)),
          log |-> << "interpret_requirements", "design_database", "validate_db_design",
                     "review_database_design" >>] @@ idle
    ELSE LET review == outs.review[1] IN
    IF needs_approval(review)
    THEN [result |-> OrchestrationResult("PENDING_APPROVAL", Some("approval"), Some(token),
                        Some(requirements), Some(db_design), Some(review), None, None, None),
          log |-> << "interpret_requirements", "design_database", "validate_db_design",
                     "review_database_design", "create_pending_approval" >>,
          review |-> Some(review),
          created |-> Some(PendingApprovalState(token, user_prompt,
                              dump_Requirements(requirements), dump_Design(db_design),
                              dump_Review(review), language)),
          context |-> None]
    ELSE LET fin == run_git_and_finish(requirements, db_design, review, None, language,
                                       outs.git, outs.err)
         IN [result |-> fin.result,
             log |-> << "interpret_requirements", "design_database", "validate_db_design",
                        "review_database_design" >> \o fin.log,
             review |-> Some(review), created |-> None, context |-> fin.context]

\* run_orchestration; outs holds the outcome of each LLM-backed stage, should the
\* run reach it, and token is the value uuid4 yields, should the run pause.
\* Returns the result, the capabilities invoked in order, the local `review`, and
\* the object create_pending_approval stored (None: it was not called).
run_orchestration(user_prompt, language, outs, token) ==
    LET idle == [review |-> None, created |-> None, context |-> None]
    IN
    IF outs.requirements = None
    THEN [result |-> OrchestrationResult("FAILED", Some("requirements"), None, None, None,
                        None, None, None,
                        Some(<< "Failed to interpret requirements: " \o outs.err >>)),
          log |-> << "interpret_requirements" >>] @@ idle
    ELSE LET requirements == outs.requirements[1] IN
    IF outs.design = None
    THEN [result |-> OrchestrationResult("FAILED", Some("database_design"), None,
                        Some(requirements), None, None, None, None,
                        Some(<< "Failed to design database: " \o outs.err >>)),
          log |-> << "interpret_requirements", "design_database" >>] @@ idle
    ELSE LET db_design == outs.design[1]
             validation_result == validate_db_design(dump_Design(db_design)) IN
    IF ~validation_result.is_valid
    THEN [result |-> OrchestrationResult("FAILED", Some("validation"), None,
                        Some(requirements), Some(db_design), None, None, None,
                        Some(validation_result.issues)),
          log |-> << "interpret_requirements", "design_database", "validate_db_design" >>] @@ idle
    ELSE IF outs.review = None
    THEN [result |-> OrchestrationResult("FAILED", Some("review"), None,
                        Some(requirements), Some(db_design), None, None, None,
                        Some(<< "Failed to review design: " \o outs.err >>)),
          log |-> << "interpret_requirements", "design_database", "validate_db_design",
                     "review_database_design" >>] @@ idle
    ELSE LET review == outs.review[1] IN
    IF needs_approval(review)
    THEN [result |-> OrchestrationResult("PENDING_APPROVAL", Some("approval"), Some(token),
                        Some(requirements), Some(db_design), Some(review), None, None, None),
          log |-> << "interpret_requirements", "design_database", "validate_db_design",
                     "review_database_design", "create_pending_approval" >>,
          review |-> Some(review),
          created |-> Some(PendingApprovalState(token, user_prompt,
                              dump_Requirements(requirements), dump_Design(db_design),
                              dump_Review(review), language)),
          context |-> None]
    ELSE LET fin == run_git_and_finish(requirements, db_design, review, None, language,
                                       outs.git, outs.err)
         IN [result |-> fin.result,
             log |-> << "interpret_requirements", "design_database", "validate_db_design",
                        "review_database_design" >> \o fin.log,
             review |-> Some(review), created |-> None, context |-> fin.context]

\* Mutant: the language captured at pause time is not consulted.
effective_language_ignores_state(language, state) ==
    IF StrTruthy(language) THEN language ELSE Some("python")

\* run_orchestration_continue, line 194: language or state.language or "python".
effective_language(language, state) ==
    IF StrTruthy(language) THEN language
    ELSE IF StrTruthy(state.language) THEN state.language ELSE Some("python")

\* run_orchestration_continue, lines 172-174: the three models rehydrated from the
\* stored dicts; None where a model_validate raises.
rehydrate(state) ==
    LET requirements == validate_Requirements(state.requirements)
        db_design == validate_Design(state.database_design)
        review == validate_Review(state.review)
    IN IF requirements = None \/ db_design = None \/ review = None THEN None
       ELSE Some([requirements |-> requirements[1], db_design |-> db_design[1],
                  review |-> review[1]])

\* ------------------------------------------------------------------ main.py
\* submit_approval_endpoint: HTTP 400 with the message when submit_approval fails.
submit_approval_endpoint(success, message, approval_token) ==
    IF ~success
    THEN [status_code |-> 400, success |-> FALSE, message |-> message, approval_token |-> approval_token]
    ELSE [status_code |-> 200, success |-> TRUE, message |-> message, approval_token |-> approval_token]

\* ---------------------------------------------------------------- the threads
IdleThread ==
    [kind |-> "idle", pc |-> "idle", token |-> UnknownToken, language |-> None,
     decision_in |-> None, state |-> None, decision |-> None, result |-> None,
     log |-> << >>, review |-> None, context |-> None,
     at_call |-> "unknown"]

\* A worker is free when it runs no call; the value it returned last stays visible.
Free(c) == threads[c].pc \in {"idle", "done"}
\* A free worker takes the next request, while the model admits one.
Accept(c) == Free(c) /\ calls < MaxCalls /\ calls' = calls + 1

\* Tokens a client can present: the ones issued so far, or a string never issued.
ClientTokens == Issued \cup {UnknownToken}

Init ==
    /\ heap = << >>
    /\ pending_states = << >>
    /\ approval_decisions = << >>
    /\ threads = [c \in Threads |-> IdleThread]
    /\ branches = [t \in Tokens |-> 0]
    /\ calls = 0

\* Every way one run_orchestration call can go, by the token uuid4 would yield:
\* over the prompts, the languages and the outcomes of the stages; each run keeps
\* the language of its request.
OrchestrationRuns ==
    [token \in 1..(MaxTokens + 1) |->
        { [language |-> language] @@ run_orchestration(user_prompt, language, outs, token) :
            user_prompt \in Prompts, language \in Languages, outs \in StageOutcomes }]

\* POST /orchestrate: one run_orchestration call.  Its stages touch nothing shared
\* and its only store access is the single insert of create_pending_approval, so
\* the call is one step.
Orchestrate(c) ==
    /\ Accept(c)
    /\ \E r \in OrchestrationRuns[NextToken] :
           /\ r.created # None => NextToken <= MaxTokens
           /\ heap' = IF r.created = None THEN heap ELSE (NextToken :> r.created[1]) @@ heap
           /\ pending_states' = IF r.created = None THEN pending_states
                                ELSE (NextToken :> NextToken) @@ pending_states
           /\ threads' = [threads EXCEPT ![c] =
                  [IdleThread EXCEPT !.kind = "orch", !.pc = "done", !.language = r.language,
                                     !.result = Some(r.result), !.log = r.log,
                                     !.review = r.review, !.context = r.context]]
    /\ UNCHANGED << approval_decisions, branches >>

\* POST /approval, submit_approval line 86-88: the token has no pending state.
SubmitInvalidToken(c) ==
    /\ Accept(c)
    /\ \E approval_token \in ClientTokens, d \in DecisionInputs :
        /\ get_pending_state(pending_states, approval_token) = None
        /\ threads' = [threads EXCEPT ![c] =
               [IdleThread EXCEPT !.kind = "submit", !.pc = "done", !.token = approval_token,
                                  !.decision_in = Some(d),
                                  !.result = Some(submit_approval_endpoint(FALSE, InvalidTokenMessage, approval_token))]]
    /\ UNCHANGED << store, branches >>

\* submit_approval line 86: the state object is found.
SubmitLookup(c) ==
    /\ Accept(c)
    /\ \E approval_token \in ClientTokens, d \in DecisionInputs :
        /\ get_pending_state(pending_states, approval_token) # None
        /\ threads' = [threads EXCEPT ![c] =
               [IdleThread EXCEPT !.kind = "submit", !.pc = "set_decision", !.token = approval_token,
                                  !.decision_in = Some(d),
                                  !.state = get_pending_state(pending_states, approval_token)]]
    /\ UNCHANGED << store, branches >>

\* Mutant: a decision already recorded is kept (first write wins).
SubmitSetDecision_keeps_first(c) ==
    /\ threads[c].kind = "submit" /\ threads[c].pc = "set_decision"
    /\ LET d == threads[c].decision_in[1]
           ref == threads[c].state[1]
       IN heap' = IF heap[ref].decision # None THEN heap
                  ELSE [heap EXCEPT ![ref].decision =
                           Some(ApprovalDecision(d.approved, d.comments, d.approved_by))]
    /\ threads' = [threads EXCEPT ![c].pc = "record"]
    /\ UNCHANGED << pending_states, approval_decisions, branches, calls >>

\* Mutant: recording the decision also blanks the prompt kept in the state.
SubmitSetDecision_blanks_prompt(c) ==
    /\ threads[c].kind = "submit" /\ threads[c].pc = "set_decision"
    /\ LET d == threads[c].decision_in[1]
       IN heap' = [heap EXCEPT ![threads[c].state[1]].decision =
                       Some(ApprovalDecision(d.approved, d.comments, d.approved_by)),
                               ![threads[c].state[1]].user_prompt = ""]
    /\ threads' = [threads EXCEPT ![c].pc = "record"]
    /\ UNCHANGED << pending_states, approval_decisions, branches, calls >>
\* submit_approval lines 90-94: state.decision = ApprovalDecision(...), on the object held.
SubmitSetDecision(c) ==
    /\ threads[c].kind = "submit" /\ threads[c].pc = "set_decision"
    /\ LET d == threads[c].decision_in[1]
       IN heap' = [heap EXCEPT ![threads[c].state[1]].decision =
                       Some(ApprovalDecision(d.approved, d.comments, d.approved_by))]
    /\ threads' = [threads EXCEPT ![c].pc = "record"]
    /\ UNCHANGED << pending_states, approval_decisions, branches, calls >>

\* submit_approval lines 95-96: _approval_decisions[token] = state.decision; return.
SubmitRecord(c) ==
    /\ threads[c].kind = "submit" /\ threads[c].pc = "record"
    /\ approval_decisions' =
           [t \in DOMAIN approval_decisions \cup {threads[c].token} |->
               IF t = threads[c].token THEN heap[threads[c].state[1]].decision[1]
               ELSE approval_decisions[t]]
    /\ threads' = [threads EXCEPT ![c].pc = "done",
                                  ![c].result = Some(submit_approval_endpoint(TRUE, RecordedMessage, threads[c].token))]
    /\ UNCHANGED << heap, pending_states, branches, calls >>

\* History: what the store holds for a token at the moment a call is made with it.
TokenStatus(token) ==
    LET d == get_approval_decision(heap, pending_states, approval_decisions, token)
    IN IF token \notin Issued THEN "unknown"
       ELSE IF token \notin DOMAIN pending_states THEN "consumed"
       ELSE IF d = None THEN "undecided"
       ELSE IF d[1].approved THEN "approved" ELSE "rejected"

\* POST /orchestrate/continue arrives: run_orchestration_continue(token, language) is entered.
ContinueCall(c) ==
    /\ Accept(c)
    /\ \E approval_token \in ClientTokens, language \in ContinueLanguages :
        threads' = [threads EXCEPT ![c] =
            [IdleThread EXCEPT !.kind = "cont", !.pc = "get_state", !.token = approval_token,
                               !.language = language, !.at_call = TokenStatus(approval_token)]]
    /\ UNCHANGED << store, branches >>

\* Mutant: the invalid-token failure is returned without its issue.
InvalidTokenResult_without_issues ==
    OrchestrationResult("FAILED", Some("approval"), None, None, None, None, None, None, Some(<< >>))
InvalidTokenResult ==
    OrchestrationResult("FAILED", Some("approval"), None, None, None, None, None, None, Some(<< InvalidTokenMessage >>))
NoDecisionResult ==
    OrchestrationResult("FAILED", Some("approval"), None, None, None, None, None, None, Some(<< NoDecisionMessage >>))

\* Mutant: a token that was used before is told apart from one never issued.
ContinueInvalidToken_tells_consumed(c) ==
    /\ threads[c].kind = "cont" /\ threads[c].pc = "get_state"
    /\ get_pending_state(pending_states, threads[c].token) = None
    /\ threads' = [threads EXCEPT ![c].pc = "done",
                                  ![c].result = Some(
                                      IF threads[c].token \in DOMAIN approval_decisions
                                      THEN OrchestrationResult("FAILED", Some("approval"), None, None, None, None,
                                               None, None, Some(<< "Approval token already used" >>))
                                      ELSE InvalidTokenResult)]
    /\ UNCHANGED << store, branches, calls >>

\* Lines 155-161: no pending state under the token.
ContinueInvalidToken(c) ==
    /\ threads[c].kind = "cont" /\ threads[c].pc = "get_state"
    /\ get_pending_state(pending_states, threads[c].token) = None
    /\ threads' = [threads EXCEPT ![c].pc = "done", ![c].result = Some(InvalidTokenResult)]
    /\ UNCHANGED << store, branches, calls >>

\* Line 155: the pending state is found.
ContinueLoadState(c) ==
    /\ threads[c].kind = "cont" /\ threads[c].pc = "get_state"
    /\ get_pending_state(pending_states, threads[c].token) # None
    /\ threads' = [threads EXCEPT ![c].pc = "get_decision",
                                  ![c].state = get_pending_state(pending_states, threads[c].token)]
    /\ UNCHANGED << store, branches, calls >>

\* Mutant: the state is consumed on the missing-decision path too.
ContinueNoDecision_consumes(c) ==
    /\ threads[c].kind = "cont" /\ threads[c].pc = "get_decision"
    /\ get_approval_decision(heap, pending_states, approval_decisions, threads[c].token) = None
    /\ threads' = [threads EXCEPT ![c].pc = "done", ![c].result = Some(NoDecisionResult)]
    /\ pending_states' = consume_pending_state(pending_states, threads[c].token)
    /\ UNCHANGED << heap, approval_decisions, branches, calls >>

\* Lines 163-169: no decision recorded; the state is not consumed.
ContinueNoDecision(c) ==
    /\ threads[c].kind = "cont" /\ threads[c].pc = "get_decision"
    /\ get_approval_decision(heap, pending_states, approval_decisions, threads[c].token) = None
    /\ threads' = [threads EXCEPT ![c].pc = "done", ![c].result = Some(NoDecisionResult)]
    /\ UNCHANGED << store, branches, calls >>

\* Mutant: the decision's approved flag is not looked at; every decision finalizes.
ContinueLoadDecision_ignores_rejection(c) ==
    /\ threads[c].kind = "cont" /\ threads[c].pc = "get_decision"
    /\ LET decision == get_approval_decision(heap, pending_states, approval_decisions, threads[c].token)
       IN /\ decision # None
          /\ threads' = IF rehydrate(heap[threads[c].state[1]]) = None
                        THEN [threads EXCEPT ![c].pc = "done", ![c].result = Some(Raised("ValidationError"))]
                        ELSE [threads EXCEPT ![c].decision = decision, ![c].pc = "finalize"]
    /\ UNCHANGED << store, branches, calls >>

\* Lines 163-181: the decision is read, the models are rehydrated, the branch is chosen.
ContinueLoadDecision(c) ==
    /\ threads[c].kind = "cont" /\ threads[c].pc = "get_decision"
    /\ LET decision == get_approval_decision(heap, pending_states, approval_decisions, threads[c].token)
       IN /\ decision # None
          /\ threads' = IF rehydrate(heap[threads[c].state[1]]) = None
                        THEN [threads EXCEPT ![c].pc = "done", ![c].result = Some(Raised("ValidationError"))]
                        ELSE [threads EXCEPT ![c].decision = decision,
                                             ![c].pc = IF decision[1].approved THEN "finalize" ELSE "reject"]
    /\ UNCHANGED << store, branches, calls >>

\* Mutant: the rejection returns HALTED without consuming the state.
ContinueReject_keeps_state(c) ==
    /\ threads[c].kind = "cont" /\ threads[c].pc = "reject"
    /\ LET m == rehydrate(heap[threads[c].state[1]])[1]
       IN threads' = [threads EXCEPT ![c].pc = "done",
                                     ![c].result = Some(OrchestrationResult("HALTED", Some("approval"), None,
                                         Some(m.requirements), Some(m.db_design), Some(m.review),
                                         Some(ApprovalResponse(threads[c].decision[1])), None,
                                         Some(<< RejectedMessage >>)))]
    /\ UNCHANGED << store, branches, calls >>

\* Lines 181-191: rejected; consume the state and return HALTED.
ContinueReject(c) ==
    /\ threads[c].kind = "cont" /\ threads[c].pc = "reject"
    /\ LET m == rehydrate(heap[threads[c].state[1]])[1]
       IN threads' = [threads EXCEPT ![c].pc = "done",
                                     ![c].result = Some(OrchestrationResult("HALTED", Some("approval"), None,
                                         Some(m.requirements), Some(m.db_design), Some(m.review),
                                         Some(ApprovalResponse(threads[c].decision[1])), None,
                                         Some(<< RejectedMessage >>)))]
    /\ pending_states' = consume_pending_state(pending_states, threads[c].token)
    /\ UNCHANGED << heap, approval_decisions, branches, calls >>

\* Lines 193-201: approved; run _run_git_and_finish with the decision attached.
ContinueFinalize(c) ==
    /\ threads[c].kind = "cont" /\ threads[c].pc = "finalize"
    /\ \E git \in Outcomes(StrategyValues), err \in ErrorTexts :
        LET state == heap[threads[c].state[1]]
            m == rehydrate(state)[1]
            fin == run_git_and_finish(m.requirements, m.db_design, m.review,
                                      Some(ApprovalResponse(threads[c].decision[1])),
                                      effective_language(threads[c].language, state), git, err)
        IN /\ threads' = [threads EXCEPT ![c].pc = "consume", ![c].result = Some(fin.result),
                                         ![c].log = fin.log, ![c].context = fin.context]
           /\ branches' = [branches EXCEPT ![threads[c].token] =
                              IF \E i \in 1..Len(fin.log) : fin.log[i] = "create_branch"
                              THEN @ + 1 ELSE @]
    /\ UNCHANGED << store, calls >>

\* Mutant: the state is consumed only when the finalization succeeded.
ContinueConsume_only_on_success(c) ==
    /\ threads[c].kind = "cont" /\ threads[c].pc = "consume"
    /\ pending_states' = IF threads[c].result[1].status = "SUCCESS"
                         THEN consume_pending_state(pending_states, threads[c].token)
                         ELSE pending_states
    /\ threads' = [threads EXCEPT ![c].pc = "done"]
    /\ UNCHANGED << heap, approval_decisions, branches, calls >>

\* Lines 202-203: consume the state whatever the finalization returned; return it.
ContinueConsume(c) ==
    /\ threads[c].kind = "cont" /\ threads[c].pc = "consume"
    /\ pending_states' = consume_pending_state(pending_states, threads[c].token)
    /\ threads' = [threads EXCEPT ![c].pc = "done"]
    /\ UNCHANGED << heap, approval_decisions, branches, calls >>

Next ==
    \E c \in Threads :
        \/ Orchestrate(c)
        \/ SubmitInvalidToken(c)
        \/ SubmitLookup(c)
        \/ SubmitSetDecision(c)
        \/ SubmitRecord(c)
        \/ ContinueCall(c)
        \/ ContinueInvalidToken(c)
        \/ ContinueLoadState(c)
        \/ ContinueNoDecision(c)
        \/ ContinueLoadDecision(c)
        \/ ContinueReject(c)
        \/ ContinueFinalize(c)
        \/ ContinueConsume(c)

Spec == Init /\ [][Next]_vars

\* ------------------------------------------------- validation on its own
\* validate_db_design applied to plain dicts, as POST /skills/validate and its
\* direct callers hand it over: any of the keys may be missing.
\* The longest table list among DesignDicts.
MaxTables == 2
\* The longest column list among ColumnLists.
MaxColumns == 2

SeqsUpTo(S, n) == UNION { [1..k -> S] : k \in 0..n }
\* A key is left out of a dict by merging an unrelated key in its place.
Absent == [k \in {"_"} |-> "_"]

ColumnDicts ==
    [good |-> [name |-> "id", type |-> "UUID", constraints |-> << "PRIMARY KEY" >>],
     no_name |-> [type |-> "UUID"],
     empty_type |-> [name |-> "email", type |-> ""],
     bare |-> [constraints |-> << >>]]
ColumnLists ==
    { << >>, << ColumnDicts.good >>, << ColumnDicts.good, ColumnDicts.no_name >>,
      << ColumnDicts.empty_type, ColumnDicts.bare >> }
TableDicts ==
    { n @@ cs : n \in {Absent, [name |-> ""], [name |-> "users"]},
                cs \in {Absent} \cup { [columns |-> l] : l \in ColumnLists } }
DesignDicts ==
    { ts @@ nl @@ dr @@ sq :
        ts \in {Absent} \cup { [tables |-> l] : l \in SeqsUpTo(TableDicts, MaxTables) },
        nl \in {Absent, [normalization_level |-> "3NF"], [normalization_level |-> "2NF"]},
        dr \in {Absent, [design_rationale |-> << "why" >>]},
        sq \in {Absent, [sql_schema |-> ""], [sql_schema |-> "   "],
                [sql_schema |-> "CREATE TABLE users (id UUID);"]} }

\* One worker holds a call validate_db_design(db_design) not yet run.
ValidateInit ==
    /\ heap = << >> /\ pending_states = << >> /\ approval_decisions = << >>
    /\ branches = [t \in Tokens |-> 0]
    /\ calls = 0
    /\ \E c \in Threads, d \in DesignDicts :
           threads = [x \in Threads |->
                         IF x = c
                         THEN [db_design |-> d] @@ [IdleThread EXCEPT !.kind = "validate", !.pc = "call"]
                         ELSE IdleThread]

\* validate_design: the call runs and returns {is_valid, issues}.
ValidateDesign(c) ==
    /\ threads[c].kind = "validate" /\ threads[c].pc = "call"
    /\ threads' = [threads EXCEPT ![c].pc = "done",
                                  ![c].result = Some(validate_db_design(threads[c].db_design))]
    /\ UNCHANGED << store, branches, calls >>

ValidateNext == \E c \in Threads : ValidateDesign(c)

SpecValidate == ValidateInit /\ [][ValidateNext]_vars

\* ------------------------------------------------------------ finalization
\* _run_git_and_finish called on its own, for every target language: each worker
\* holds one call with a language of its own; the artifacts, the approval and the
\* Git Strategy outcome of the calls are drawn here.
FinalizeLanguages ==
    {None, Some("")} \cup
    {Some(s) : s \in {"python", "Python", "PYTHON", "node", "Node", "nodejs", "NodeJS",
                      "java", "Java", "go", "Go", "GO", "rust", "Rust", "kotlin"}}

FinalizeApprovals ==
    {None, Some([cls |-> "ApprovalResponse", approved |-> TRUE, comments |-> None,
                 approved_by |-> None])}

FinalizeInit ==
    /\ heap = << >> /\ pending_states = << >> /\ approval_decisions = << >>
    /\ branches = [t \in Tokens |-> 0]
    /\ calls = 0
    /\ \E rq \in RequirementsValues, rv \in ReviewValues, a \in FinalizeApprovals,
          g \in Outcomes(StrategyValues) :
           threads \in [Threads ->
               {[requirements |-> rq, db_design |-> DesignValid, review_in |-> rv,
                 approval |-> a, git |-> g]
                   @@ [IdleThread EXCEPT !.kind = "finalize", !.pc = "call", !.language = l] :
                  l \in FinalizeLanguages}]

\* _run_git_and_finish: the call runs to its return.
Finalize(c) ==
    /\ threads[c].kind = "finalize" /\ threads[c].pc = "call"
    /\ \E err \in ErrorTexts :
           LET t == threads[c]
               r == run_git_and_finish(t.requirements, t.db_design, t.review_in, t.approval,
                                       t.language, t.git, err)
           IN threads' = [threads EXCEPT ![c].pc = "done", ![c].result = Some(r.result),
                                         ![c].log = r.log, ![c].context = r.context]
    /\ UNCHANGED << store, branches, calls >>

FinalizeNext == \E c \in Threads : Finalize(c)

SpecFinalize == FinalizeInit /\ [][FinalizeNext]_vars

\* ------------------------------------------------------------- github push
\* push_repo_structure_to_github called on its own.  The worker's record holds the
\* arguments, the position in the file loop and what the repository on GitHub
\* holds: whether it has any branch, whether the target branch exists, the paths
\* on the target branch (remote), the writes this call has made (written), and
\* whether the call has got as far as the file loop (ready).
MaxFiles == 2
Paths == {"", "README.md", "src/main.py"}
GithubTokens == {"", " ", "ghp_token"}
FileLists == SeqsUpTo({[path |-> p, content |-> "text"] : p \in Paths}, MaxFiles)

PushFailure(text) == [success |-> FALSE, error |-> Some(text), files_created |-> None]
PushSuccess(files_created) ==
    [success |-> TRUE, error |-> None, files_created |-> Some(files_created)]

PushInit ==
    /\ heap = << >> /\ pending_states = << >> /\ approval_decisions = << >>
    /\ branches = [t \in Tokens |-> 0]
    /\ calls = 0
    /\ \E c \in Threads, github_token \in GithubTokens, files \in FileLists,
          repo_is_empty \in BOOLEAN, branch_exists \in BOOLEAN,
          remote \in SUBSET (Paths \ {""}) :
           /\ repo_is_empty => ~branch_exists
           /\ ~branch_exists => remote = {}
           /\ threads = [x \in Threads |->
                 IF x = c
                 THEN [github_token |-> github_token, files |-> files, i |-> 1,
                       repo_is_empty |-> repo_is_empty, branch_exists |-> branch_exists,
                       remote |-> remote, ready |-> FALSE, written |-> << >>,
                       files_created |-> << >>]
                          @@ [IdleThread EXCEPT !.kind = "push", !.pc = "call"]
                 ELSE IdleThread]

PushEnds(c, result) ==
    threads' = [threads EXCEPT ![c].pc = "done", ![c].result = Some(result)]

\* Lines 55-69: a blank token or an empty file list ends the call at once.
PushRefused(c) ==
    /\ threads[c].kind = "push" /\ threads[c].pc = "call"
    /\ \/ /\ (threads[c].github_token \in BlankStrings)
          /\ PushEnds(c, PushFailure("GitHub token is required"))
       \/ /\ threads[c].github_token \notin BlankStrings /\ threads[c].files = << >>
          /\ PushEnds(c, PushFailure("No files to push"))
    /\ UNCHANGED << store, branches, calls >>

\* Lines 71-145: the repository is fetched (or created) and the base branch looked
\* up; either call may fail, and a repository without branches is told apart.
PushOpen(c) ==
    /\ threads[c].kind = "push" /\ threads[c].pc = "call"
    /\ threads[c].github_token \notin BlankStrings /\ threads[c].files # << >>
    /\ \/ PushEnds(c, PushFailure("Repo not found"))
       \/ PushEnds(c, PushFailure("Error accessing branch"))
       \/ threads' = [threads EXCEPT ![c].pc = IF threads[c].repo_is_empty THEN "empty_repo"
                                               ELSE "create_ref",
                                      ![c].ready = threads[c].repo_is_empty]
    /\ UNCHANGED << store, branches, calls >>

\* Lines 192-206: create_git_ref; "Reference already exists" is passed over, any
\* other GithubException ends the call, any other exception reaches line 254.
PushCreateRef(c) ==
    /\ threads[c].kind = "push" /\ threads[c].pc = "create_ref"
    /\ \/ threads' = [threads EXCEPT ![c].pc = "files", ![c].branch_exists = TRUE,
                                      ![c].ready = TRUE]
       \/ PushEnds(c, PushFailure("Failed to create branch"))
       \/ PushEnds(c, PushFailure("connection error"))
    /\ UNCHANGED << store, branches, calls >>

\* What create_file can do for a path: write it when the branch does not hold it,
\* refuse it with 422 "already exists" when it does, fail with another
\* GithubException, or fail with an exception that is not a GithubException (the
\* connection is lost, the request times out).
CreateOutcomes(remote, path) ==
    (IF path \in remote THEN {"exists"} ELSE {"ok"}) \cup {"github_error", "error"}
UpdateOutcomes == {"ok", "error"}

Wrote(t, path) ==
    [t EXCEPT !.i = t.i + 1, !.remote = t.remote \cup {path},
              !.written = Append(t.written, path),
              !.files_created = Append(t.files_created, path)]
Skipped(t) == [t EXCEPT !.i = t.i + 1]

\* Lines 210-240: one round of the file loop on a branch that exists.
PushFile(c) ==
    /\ threads[c].kind = "push" /\ threads[c].pc = "files"
    /\ threads[c].i <= Len(threads[c].files)
    /\ LET t == threads[c]
           path == t.files[t.i].path
       IN IF path = ""
          THEN threads' = [threads EXCEPT ![c] = Skipped(t)]
          ELSE \E created \in CreateOutcomes(t.remote, path), updated \in UpdateOutcomes :
                  CASE created = "ok" -> threads' = [threads EXCEPT ![c] = Wrote(t, path)]
                    [] created = "exists" /\ updated = "ok" ->
                           threads' = [threads EXCEPT ![c] = Wrote(t, path)]
                    [] created = "exists" /\ updated = "error" ->
                           threads' = [threads EXCEPT ![c] = Skipped(t)]
                    [] created = "github_error" -> threads' = [threads EXCEPT ![c] = Skipped(t)]
                    [] created = "error" -> PushEnds(c, PushFailure("connection error"))
    /\ UNCHANGED << store, branches, calls >>

\* Lines 152-176: one round of the file loop on a repository without branches;
\* every exception of create_file is caught, and no update is attempted.
PushFileEmptyRepo(c) ==
    /\ threads[c].kind = "push" /\ threads[c].pc = "empty_repo"
    /\ threads[c].i <= Len(threads[c].files)
    /\ LET t == threads[c]
           path == t.files[t.i].path
       IN IF path = ""
          THEN threads' = [threads EXCEPT ![c] = Skipped(t)]
          ELSE \E created \in CreateOutcomes(t.remote, path) :
                  IF created = "ok"
                  THEN threads' = [threads EXCEPT ![c] = Wrote(t, path)]
                  ELSE threads' = [threads EXCEPT ![c] = Skipped(t)]
    /\ UNCHANGED << store, branches, calls >>

\* Lines 178-190 and 242-252: the loop is over, the call returns what it wrote.
PushReturn(c) ==
    /\ threads[c].kind = "push" /\ threads[c].pc \in {"files", "empty_repo"}
    /\ threads[c].i > Len(threads[c].files)
    /\ PushEnds(c, PushSuccess(threads[c].files_created))
    /\ UNCHANGED << store, branches, calls >>

PushNext ==
    \E c \in Threads :
        \/ PushRefused(c) \/ PushOpen(c) \/ PushCreateRef(c)
        \/ PushFile(c) \/ PushFileEmptyRepo(c) \/ PushReturn(c)

SpecPush == PushInit /\ [][PushNext]_vars

\* ---------------------------------------------------------------- llm retry
\* call_llm_structured and call_llm_raw called on their own.  Temperatures are
\* counted in tenths (1 is 0.1).  The worker's record holds the arguments, the
\* attempt the loop is at, the temperature of every attempt made, the errors
\* caught, and in log the attempts and sleeps in the order they happened.
MaxRetries == 3
MaxTemperature == 10
TemperatureCap == 5
TemperatureStep == 1
LlmFunctions == {"call_llm_structured", "call_llm_raw"}
LlmErrors == {"unterminated string", "request timed out"}

\* Lines 94 and 147: temperature if attempt == 1 else min(0.5, temperature + 0.1 * attempt).
Min(a, b) == IF a <= b THEN a ELSE b
attempt_temperature(temperature, attempt) ==
    IF attempt = 1 THEN temperature
    ELSE Min(TemperatureCap, temperature + TemperatureStep * attempt)

LlmInit ==
    /\ heap = << >> /\ pending_states = << >> /\ approval_decisions = << >>
    /\ branches = [t \in Tokens |-> 0]
    /\ calls = 0
    /\ \E c \in Threads, fn \in LlmFunctions, temperature \in 0..MaxTemperature,
          max_retries \in 0..MaxRetries :
           threads = [x \in Threads |->
                 IF x = c
                 THEN [fn |-> fn, temperature |-> temperature, max_retries |-> max_retries,
                       attempt |-> 1, temps |-> << >>, errors |-> << >>, last_error |-> None]
                          @@ [IdleThread EXCEPT !.kind = "llm", !.pc = "attempt"]
                 ELSE IdleThread]

\* What the call returns: the parsed object, or the content of the message.
LlmValue(fn) == IF fn = "call_llm_structured" THEN "structured output" ELSE "content"

\* Mutant: the delay is taken after every failed attempt, the last one included.
LlmAttempt_sleeps_after_last(c) ==
    /\ threads[c].kind = "llm" /\ threads[c].pc = "attempt"
    /\ threads[c].attempt <= threads[c].max_retries
    /\ LET t == threads[c]
           temp == attempt_temperature(t.temperature, t.attempt)
           tried == [t EXCEPT !.temps = Append(t.temps, temp), !.log = Append(t.log, "attempt")]
       IN \/ threads' = [threads EXCEPT ![c] =
                 [tried EXCEPT !.pc = "done",
                               !.result = Some([raised |-> None, value |-> Some(LlmValue(t.fn))])]]
          \/ \E e \in LlmErrors :
                 threads' = [threads EXCEPT ![c] =
                     [tried EXCEPT !.errors = Append(t.errors, e), !.last_error = Some(e),
                                   !.pc = "sleep"]]
    /\ UNCHANGED << store, branches, calls >>
\* Lines 91-112 and 145-164: one round of the loop up to the return or to the
\* except clause; the round goes on to time.sleep unless it was the last.
LlmAttempt(c) ==
    /\ threads[c].kind = "llm" /\ threads[c].pc = "attempt"
    /\ threads[c].attempt <= threads[c].max_retries
    /\ LET t == threads[c]
           temp == attempt_temperature(t.temperature, t.attempt)
           tried == [t EXCEPT !.temps = Append(t.temps, temp), !.log = Append(t.log, "attempt")]
       IN \/ threads' = [threads EXCEPT ![c] =
                 [tried EXCEPT !.pc = "done",
                               !.result = Some([raised |-> None, value |-> Some(LlmValue(t.fn))])]]
          \/ \E e \in LlmErrors :
                 threads' = [threads EXCEPT ![c] =
                     [tried EXCEPT !.errors = Append(t.errors, e), !.last_error = Some(e),
                                   !.attempt = IF t.attempt < t.max_retries THEN t.attempt
                                               ELSE t.attempt + 1,
                                   !.pc = IF t.attempt < t.max_retries THEN "sleep"
                                          ELSE "attempt"]]
    /\ UNCHANGED << store, branches, calls >>

\* Lines 112 and 164: time.sleep(retry_delay_seconds), then the next round.
LlmSleep(c) ==
    /\ threads[c].kind = "llm" /\ threads[c].pc = "sleep"
    /\ threads' = [threads EXCEPT ![c].log = Append(threads[c].log, "sleep"),
                                  ![c].attempt = threads[c].attempt + 1,
                                  ![c].pc = "attempt"]
    /\ UNCHANGED << store, branches, calls >>

\* Lines 114-116 and 166-168: the loop is over without a return.
LlmRaise(c) ==
    /\ threads[c].kind = "llm" /\ threads[c].pc = "attempt"
    /\ threads[c].attempt > threads[c].max_retries
    /\ threads' = [threads EXCEPT ![c].pc = "done",
           ![c].result = Some([raised |-> IF threads[c].last_error # None
                                          THEN threads[c].last_error
                                          ELSE Some(threads[c].fn \o " failed with no exception"),
                               value |-> None])]
    /\ UNCHANGED << store, branches, calls >>

LlmNext == \E c \in Threads : LlmAttempt(c) \/ LlmSleep(c) \/ LlmRaise(c)

SpecRetry == LlmInit /\ [][LlmNext]_vars

\* ==================================================================== claims
Invoked(log, name) == \E i \in 1..Len(log) : log[i] = name
GitTouched(log) == Invoked(log, "propose_git_strategy") \/ Invoked(log, "create_branch")
Returned(c, kind) == threads[c].kind = kind /\ threads[c].pc = "done"
Result(c) == threads[c].result[1]
\* Worker c takes a step of its call in this transition.
Steps(c) == threads'[c] # threads[c]

\* C1: no run_orchestration call whose review asked for approval invokes the Git
\* Strategy stage or create_branch: it returns PENDING_APPROVAL with neither in
\* its log.  A run_orchestration_continue call that invoked either had read,
\* for its token, a decision recorded on that token's state with approved = true.
C1_ApprovalGate ==
    \A c \in Threads :
        /\ (threads[c].kind = "orch" /\ threads[c].review # None
                /\ threads[c].review[1].approval_required)
              => (Result(c).status = "PENDING_APPROVAL" /\ ~GitTouched(threads[c].log))
        /\ (threads[c].kind = "orch" /\ Result(c).status = "PENDING_APPROVAL")
              => ~GitTouched(threads[c].log)
        /\ (threads[c].kind = "cont" /\ GitTouched(threads[c].log))
              => /\ threads[c].decision # None
                 /\ threads[c].decision[1].approved
                 /\ heap[threads[c].token].decision # None

\* A paused run next to a continuation of it that created the branch.
C1_Witness ==
    \E c, o \in Threads :
        /\ Returned(o, "orch") /\ Result(o).status = "PENDING_APPROVAL"
        /\ Returned(c, "cont") /\ Result(c).status = "SUCCESS"
        /\ Result(o).approval_token = Some(threads[c].token)
        /\ Invoked(threads[c].log, "create_branch")

\* C2: run_orchestration returns PENDING_APPROVAL exactly when the review stage
\* returned a review whose approval_required is true; in every other case the
\* status is SUCCESS or FAILED, whatever the risk level.
C2_PendingIffApprovalRequired ==
    \A c \in Threads :
        threads[c].kind = "orch" =>
            LET gated == /\ Invoked(threads[c].log, "review_database_design")
                         /\ Result(c).review # None
                         /\ Result(c).review[1].approval_required
            IN /\ Result(c).status = "PENDING_APPROVAL" <=> gated
               /\ ~gated => Result(c).status \in {"SUCCESS", "FAILED"}

\* One run paused, and one run with a HIGH-risk review that asked for no approval
\* went through to SUCCESS.
C2_Witness ==
    \E c, o \in Threads :
        /\ Returned(o, "orch") /\ Result(o).status = "PENDING_APPROVAL"
        /\ Returned(c, "orch") /\ Result(c).status = "SUCCESS"
        /\ Result(c).review[1].risk_level = "HIGH"
        /\ ~Result(c).review[1].approval_required

\* C3 as stated: of two run_orchestration_continue calls made with the same token
\* while it is pending with an approving decision, none of which fails in
\* finalization, exactly one returns SUCCESS and the other FAILED at approval.
C3_ExactlyOneContinueSucceeds ==
    \A c, d \in Threads :
        (/\ c # d
         /\ Returned(c, "cont") /\ Returned(d, "cont")
         /\ threads[c].token = threads[d].token
         /\ threads[c].at_call = "approved" /\ threads[d].at_call = "approved"
         /\ ~(Result(c).status = "FAILED" /\ Result(c).stage = Some("git_strategy"))
         /\ ~(Result(d).status = "FAILED" /\ Result(d).stage = Some("git_strategy")))
        => \/ (Result(c).status = "SUCCESS" /\ Result(d).status = "FAILED"
                   /\ Result(d).stage = Some("approval"))
           \/ (Result(d).status = "SUCCESS" /\ Result(c).status = "FAILED"
                   /\ Result(c).stage = Some("approval"))

\* C4 as stated: create_branch is executed at most once per approval token.
C4_BranchCreatedAtMostOncePerToken ==
    \A t \in Tokens : branches[t] <= 1

\* C5 as stated: once consume_pending_state has removed a token, both
\* get_pending_state and get_approval_decision return None for it.
C5_ConsumeOnce ==
    \A t \in Issued :
        t \notin DOMAIN pending_states =>
            /\ get_pending_state(pending_states, t) = None
            /\ get_approval_decision(heap, pending_states, approval_decisions, t) = None

\* C6: a continue call that read a rejecting decision returns HALTED at approval
\* with the three stored artifacts and the decision, invokes neither git
\* capability, and has removed the pending state when it returns; HALTED is
\* returned on no other path; a call made with a token already consumed returns
\* the invalid-token failure.
C6_RejectionPath ==
    \A c \in Threads :
        /\ (Returned(c, "cont") /\ threads[c].decision # None /\ ~threads[c].decision[1].approved)
              => LET state == heap[threads[c].token]
                 IN /\ Result(c).status = "HALTED" /\ Result(c).stage = Some("approval")
                    /\ Result(c).requirements = validate_Requirements(state.requirements)
                    /\ Result(c).database_design = validate_Design(state.database_design)
                    /\ Result(c).review = validate_Review(state.review)
                    /\ Result(c).requirements # None /\ Result(c).database_design # None
                    /\ Result(c).review # None
                    /\ Result(c).approval = Some(ApprovalResponse(threads[c].decision[1]))
                    /\ Result(c).git = None
                    /\ Result(c).issues = Some(<< RejectedMessage >>)
                    /\ ~GitTouched(threads[c].log)
                    /\ threads[c].token \notin DOMAIN pending_states
        /\ (threads[c].kind = "cont" /\ threads[c].result # None /\ Result(c).status = "HALTED")
              => (threads[c].decision # None /\ ~threads[c].decision[1].approved)
        /\ (Returned(c, "cont") /\ threads[c].at_call = "consumed")
              => Result(c) = InvalidTokenResult

\* A HALTED call next to a later call with the same token that failed.
C6_Witness ==
    \E c, d \in Threads :
        /\ Returned(c, "cont") /\ Result(c).status = "HALTED"
        /\ Returned(d, "cont") /\ threads[d].token = threads[c].token
        /\ threads[d].at_call = "consumed" /\ Result(d) = InvalidTokenResult

CurrentDecision(token) == get_approval_decision(heap, pending_states, approval_decisions, token)

\* C7: a continue call that finds the pending state but no decision returns
\* FAILED at approval with the single issue "no decision recorded" and leaves
\* the store as it was; a call that finds a decision goes on to the rejection
\* or to finalization.
C7_NoDecisionKeepsState ==
    [][\A c \in Threads :
          (threads[c].kind = "cont" /\ threads[c].pc = "get_decision" /\ Steps(c))
              => IF CurrentDecision(threads[c].token) = None
                 THEN /\ threads'[c].pc = "done"
                      /\ threads'[c].result = Some(NoDecisionResult)
                      /\ UNCHANGED store
                 ELSE threads'[c].pc \in {"reject", "finalize"}]_vars

\* A call that failed for want of a decision, and a later call with the same
\* token, made after a decision was submitted, that went through.
C7_Witness ==
    \E c, d \in Threads :
        /\ Returned(c, "cont") /\ Result(c) = NoDecisionResult
        /\ threads[c].at_call = "undecided"
        /\ Returned(d, "cont") /\ threads[d].token = threads[c].token
        /\ threads[d].at_call \in {"approved", "rejected"}
        /\ Result(d).status \in {"HALTED", "SUCCESS"}

\* C8: a continue call that finds no pending state under its token returns
\* FAILED at approval with the single issue "Invalid or expired approval
\* token", the same value whether the token was never issued or was consumed,
\* and leaves the store as it was.
C8_InvalidToken ==
    [][\A c \in Threads :
          (/\ threads[c].kind = "cont" /\ threads[c].pc = "get_state" /\ Steps(c)
           /\ get_pending_state(pending_states, threads[c].token) = None)
              => /\ threads'[c].pc = "done"
                 /\ threads'[c].result = Some(InvalidTokenResult)
                 /\ Len(threads'[c].result[1].issues[1]) = 1
                 /\ UNCHANGED store]_vars

\* A call with a consumed token, whose decision the store still holds, got the
\* invalid-token result.
C8_Witness ==
    \E c \in Threads :
        /\ Returned(c, "cont") /\ threads[c].at_call = "consumed"
        /\ threads[c].token \in DOMAIN approval_decisions
        /\ threads[c].state = None
        /\ Result(c) = InvalidTokenResult

\* C9: a continue call that read an approving decision returns SUCCESS or FAILED
\* at git_strategy, and in both cases the pending state is removed when it
\* returns; a call made with the token afterwards fails at approval.
C9_ApprovedConsumesAlways ==
    \A c \in Threads :
        /\ (Returned(c, "cont") /\ threads[c].decision # None /\ threads[c].decision[1].approved)
              => /\ \/ Result(c).status = "SUCCESS"
                    \/ Result(c).status = "FAILED" /\ Result(c).stage = Some("git_strategy")
                 /\ Invoked(threads[c].log, "propose_git_strategy")
                 /\ threads[c].token \notin DOMAIN pending_states
        /\ (Returned(c, "cont") /\ threads[c].at_call = "consumed")
              => /\ Result(c).status = "FAILED" /\ Result(c).stage = Some("approval")
                 /\ ~GitTouched(threads[c].log)

\* A finalization that failed at git_strategy, and a retry with its token that
\* was turned away.
C9_Witness ==
    \E c, d \in Threads :
        /\ Returned(c, "cont") /\ threads[c].decision # None /\ threads[c].decision[1].approved
        /\ Result(c).status = "FAILED" /\ Result(c).stage = Some("git_strategy")
        /\ Returned(d, "cont") /\ threads[d].token = threads[c].token
        /\ threads[d].at_call = "consumed" /\ Result(d) = InvalidTokenResult

Recorded(d) == ApprovalDecision(d.approved, d.comments, d.approved_by)

\* C10: POST /approval on a token with no pending state answers HTTP 400 with
\* success false and leaves the store as it was; on a token with a pending
\* state it goes on and returns success, also when a decision exists already;
\* its write replaces the decision held, so that get_approval_decision returns
\* the decision written last while the token is pending; and a continue call
\* acts on the decision get_approval_decision returns.
C10_SubmitApproval ==
    [][\A c \in Threads :
          /\ (Free(c) /\ Steps(c) /\ threads'[c].kind = "submit")
                => IF get_pending_state(pending_states, threads'[c].token) = None
                   THEN /\ threads'[c].pc = "done"
                        /\ threads'[c].result[1].status_code = 400
                        /\ ~threads'[c].result[1].success
                        /\ UNCHANGED store
                   ELSE threads'[c].pc = "set_decision"
          /\ (threads[c].kind = "submit" /\ threads[c].pc = "set_decision" /\ Steps(c))
                => LET t == threads[c].token
                       written == Some(Recorded(threads[c].decision_in[1]))
                   IN /\ heap'[t].decision = written
                      /\ t \in DOMAIN pending_states =>
                             get_approval_decision(heap', pending_states', approval_decisions', t) = written
          /\ (threads[c].kind = "submit" /\ threads[c].pc = "record" /\ Steps(c))
                => /\ threads'[c].pc = "done"
                   /\ threads'[c].result[1].success
                   /\ threads'[c].result[1].status_code = 200
                   /\ Some(approval_decisions'[threads[c].token]) = heap[threads[c].token].decision
          /\ (/\ threads[c].kind = "cont" /\ threads[c].pc = "get_decision" /\ Steps(c)
              /\ CurrentDecision(threads[c].token) # None)
                => /\ threads'[c].decision = CurrentDecision(threads[c].token)
                   /\ threads'[c].pc = "finalize" <=> CurrentDecision(threads[c].token)[1].approved]_vars

\* Two submissions on one pending token, both answered with success; the
\* decision now returned is the second one, which differs from the first.
C10_Witness ==
    \E c, d \in Threads :
        /\ c # d
        /\ Returned(c, "submit") /\ Returned(d, "submit")
        /\ Result(c).success /\ Result(d).success
        /\ threads[c].token = threads[d].token
        /\ threads[c].decision_in # threads[d].decision_in
        /\ threads[c].token \in DOMAIN pending_states
        /\ CurrentDecision(threads[c].token) = Some(Recorded(threads[d].decision_in[1]))
        /\ approval_decisions[threads[c].token] = Recorded(threads[d].decision_in[1])

\* C11: every token create_pending_approval returns differs from every token
\* returned before, consumed or not; the insert leaves the pending state and
\* the decision of every other run as they were.
C11_TokenUniqueness ==
    [][\A c \in Threads :
          (/\ Free(c) /\ Steps(c) /\ threads'[c].kind = "orch"
           /\ threads'[c].result[1].approval_token # None)
              => LET t == threads'[c].result[1].approval_token[1]
                 IN /\ t \notin Issued
                    /\ t \notin DOMAIN pending_states /\ t \notin DOMAIN approval_decisions
                    /\ t \in DOMAIN pending_states'
                    /\ \A u \in Issued : heap'[u] = heap[u]
                    /\ \A u \in DOMAIN pending_states : pending_states'[u] = pending_states[u]
                    /\ approval_decisions' = approval_decisions]_vars

\* A second pending approval was created after the first token had a decision
\* recorded and was consumed.
C11_Witness ==
    \E c \in Threads :
        /\ Returned(c, "orch") /\ Result(c).approval_token = Some(2)
        /\ 2 \in DOMAIN pending_states /\ heap[2].decision = None
        /\ 1 \notin DOMAIN pending_states /\ 1 \in DOMAIN approval_decisions

FinishedContinue(c) ==
    /\ Returned(c, "cont")
    /\ \/ Result(c).status \in {"HALTED", "SUCCESS"}
       \/ Result(c).status = "FAILED" /\ Result(c).stage = Some("git_strategy")

\* C12: model_validate(model_dump(v)) gives back v for every Requirements,
\* Schema-Design and Risk-Review value; a continue call that reads a decision
\* returns HALTED, SUCCESS or FAILED at git_strategy, and the three artifacts in
\* its result are the ones in the PENDING_APPROVAL result that issued its token.
C12_RoundTrip ==
    /\ \A v \in RequirementsValues : validate_Requirements(dump_Requirements(v)) = Some(v)
    /\ \A v \in DesignValues : validate_Design(dump_Design(v)) = Some(v)
    /\ \A v \in ReviewValues : validate_Review(dump_Review(v)) = Some(v)
    /\ \A c \in Threads :
          (Returned(c, "cont") /\ threads[c].state # None /\ Result(c) # NoDecisionResult)
              => FinishedContinue(c)
    /\ \A c, o \in Threads :
          (/\ FinishedContinue(c)
           /\ threads[o].kind = "orch" /\ Result(o).approval_token = Some(threads[c].token))
              => /\ Result(c).requirements = Result(o).requirements
                 /\ Result(c).database_design = Result(o).database_design
                 /\ Result(c).review = Result(o).review
                 /\ Result(c).requirements # None /\ Result(c).database_design # None
                 /\ Result(c).review # None

\* The paused run and a continuation of it, whose Requirements carry the
\* relationship (field from_entity, alias "from") through the store.
C12_Witness ==
    \E c, o \in Threads :
        /\ FinishedContinue(c) /\ Result(c).status = "FAILED"
        /\ Returned(o, "orch") /\ Result(o).approval_token = Some(threads[c].token)
        /\ Result(c).requirements = Result(o).requirements
        /\ Result(c).requirements[1].relationships[1].from_entity = "User"
        /\ "from_entity" \in DOMAIN heap[threads[c].token].requirements.relationships[1]

StageLog(n) ==
    SubSeq(<< "interpret_requirements", "design_database", "validate_db_design",
              "review_database_design" >>, 1, n)
Wraps(issues, prefix) == \E e \in ErrorTexts : issues = Some(<< prefix \o e >>)
Carries(r, requirements, design, review) ==
    /\ (r.requirements # None) = requirements
    /\ (r.database_design # None) = design
    /\ (r.review # None) = review
    /\ r.approval = None /\ r.git = None /\ r.approval_token = None

\* C13: a run_orchestration call that stops at a failing stage returns FAILED
\* tagged with that stage, with the error wrapped in a one-element issue list
\* (the validation issue list for 'validation') and the artifacts of the stages
\* completed before it: none for 'requirements', Requirements for
\* 'database_design', Requirements and Schema-Design for 'validation' and for
\* 'review'; its log ends with the failing stage.
C13_FailureContract ==
    \A c \in Threads :
        threads[c].kind = "orch" =>
            LET r == Result(c)
                log == threads[c].log
            IN /\ (log = StageLog(1) \/ (r.status = "FAILED" /\ r.stage = Some("requirements")))
                    => /\ log = StageLog(1) /\ r.status = "FAILED" /\ r.stage = Some("requirements")
                       /\ Carries(r, FALSE, FALSE, FALSE)
                       /\ Wraps(r.issues, "Failed to interpret requirements: ")
               /\ (log = StageLog(2) \/ (r.status = "FAILED" /\ r.stage = Some("database_design")))
                    => /\ log = StageLog(2) /\ r.status = "FAILED" /\ r.stage = Some("database_design")
                       /\ Carries(r, TRUE, FALSE, FALSE)
                       /\ r.requirements[1] \in RequirementsValues
                       /\ Wraps(r.issues, "Failed to design database: ")
               /\ (log = StageLog(3) \/ (r.status = "FAILED" /\ r.stage = Some("validation")))
                    => /\ log = StageLog(3) /\ r.status = "FAILED" /\ r.stage = Some("validation")
                       /\ Carries(r, TRUE, TRUE, FALSE)
                       /\ r.requirements[1] \in RequirementsValues
                       /\ r.database_design[1] \in DesignValues
                       /\ r.issues = Some(validate_db_design(dump_Design(r.database_design[1])).issues)
                       /\ Len(r.issues[1]) > 0
               /\ (log = StageLog(4) \/ (r.status = "FAILED" /\ r.stage = Some("review")))
                    => /\ log = StageLog(4) /\ r.status = "FAILED" /\ r.stage = Some("review")
                       /\ Carries(r, TRUE, TRUE, FALSE)
                       /\ r.requirements[1] \in RequirementsValues
                       /\ r.database_design[1] \in DesignValues
                       /\ Wraps(r.issues, "Failed to review design: ")

\* Two runs that failed at different stages: one in Schema-Design, keeping its
\* Requirements, one in validation, keeping Requirements and Schema-Design.
C13_Witness ==
    \E c, d \in Threads :
        /\ Returned(c, "orch") /\ Result(c).stage = Some("database_design")
        /\ Result(c).requirements # None
        /\ Returned(d, "orch") /\ Result(d).stage = Some("validation")
        /\ Result(d).database_design = Some(DesignInvalid)

ValidAsDesigned(r) == validate_db_design(dump_Design(r.database_design[1])).is_valid

\* C14: a run invokes the Risk-Review stage only after validate_db_design, run
\* on its Schema-Design, returned valid; a run whose Schema-Design is invalid
\* returns FAILED at 'validation' having invoked neither the review, nor
\* create_pending_approval, nor the Repo-Strategy stage, and leaves the approval
\* store as it was.
C14_ReviewOnlyAfterValidation ==
    [][\A c \in Threads :
          (Free(c) /\ Steps(c) /\ threads'[c].kind = "orch") =>
              LET r == threads'[c].result[1]
                  log == threads'[c].log
              IN /\ Invoked(log, "review_database_design")
                    => /\ r.database_design # None /\ ValidAsDesigned(r)
                       /\ SubSeq(log, 1, 4) = StageLog(4)
                 /\ (r.database_design # None /\ ~ValidAsDesigned(r))
                    => /\ r.status = "FAILED" /\ r.stage = Some("validation")
                       /\ log = StageLog(3)
                       /\ ~Invoked(log, "create_pending_approval") /\ ~GitTouched(log)
                       /\ r.review = None /\ threads'[c].review = None
                       /\ UNCHANGED << store, branches >>]_vars

\* One run stopped at validation, another went on to the review with a valid design.
C14_Witness ==
    \E c, d \in Threads :
        /\ Returned(c, "orch") /\ Result(c).stage = Some("validation")
        /\ threads[c].log = StageLog(3)
        /\ Returned(d, "orch") /\ Invoked(threads[d].log, "review_database_design")
        /\ Result(d).database_design = Some(DesignValid)

Count(log, name) == Cardinality({i \in 1..Len(log) : log[i] = name})
\* The approval a finalization is given: none from run_orchestration, the
\* decision read from run_orchestration_continue.
ApprovalGiven(c) ==
    IF threads[c].kind = "orch" THEN None ELSE Some(ApprovalResponse(threads[c].decision[1]))

\* C15: a call that ran the finalization routine returns FAILED at
\* 'git_strategy' when propose_git_strategy raised, with the three artifacts and
\* the approval it was given and without create_branch; otherwise it invoked
\* create_branch exactly once and returns SUCCESS with the three artifacts, the
\* approval it was given, and git = {strategy, execution of that strategy's branch}.
C15_Finalization ==
    \A c \in Threads :
        (threads[c].kind \in {"orch", "cont"} /\ Invoked(threads[c].log, "propose_git_strategy")) =>
            LET r == Result(c)
                log == threads[c].log
            IN /\ r.requirements # None /\ r.database_design # None /\ r.review # None
               /\ r.approval = ApprovalGiven(c)
               /\ Count(log, "propose_git_strategy") = 1
               /\ \/ /\ r.status = "FAILED" /\ r.stage = Some("git_strategy")
                     /\ Wraps(r.issues, "Failed to propose git strategy: ")
                     /\ r.git = None
                     /\ Count(log, "create_branch") = 0
                  \/ /\ r.status = "SUCCESS" /\ r.stage = None /\ r.issues = None
                     /\ Count(log, "create_branch") = 1
                     /\ \E g \in StrategyValues :
                            r.git = Some([strategy |-> dump_Strategy(g),
                                          execution |-> create_branch("agentic-dev-platform",
                                                            g.branch_name, g.base_branch)])

\* A run without approval that succeeded with no decision attached, next to a
\* continuation that failed at git_strategy and kept the recorded decision.
C15_Witness ==
    \E c, o \in Threads :
        /\ Returned(o, "orch") /\ Result(o).status = "SUCCESS" /\ Result(o).approval = None
        /\ Result(o).git # None
        /\ Returned(c, "cont") /\ Result(c).status = "FAILED"
        /\ Result(c).stage = Some("git_strategy")
        /\ Result(c).approval # None /\ Result(c).approval[1].approved

Finalized(c) == threads[c].kind = "cont" /\ threads[c].context # None
Captured(c) == heap[threads[c].token].language
NonEmpty(o) == o # None /\ o[1] # ""

DecisionRead(c) == Returned(c, "cont") /\ threads[c].decision # None

Validated(c) == threads[c].kind = "validate" /\ threads[c].pc = "done"
Has(d, k) == k \in DOMAIN d
Filled(d, k) == Has(d, k) /\ d[k] # ""
NonBlank(s) == s \notin {"", " ", "   "}
RequiredKeys == {"tables", "normalization_level", "design_rationale", "sql_schema"}

\* The validity rules, stated on the dict.
WellFormedColumn(col) == Filled(col, "name") /\ Filled(col, "type")
WellFormedTable(t) ==
    /\ Filled(t, "name")
    /\ Has(t, "columns") /\ Len(t.columns) >= 1
    /\ \A j \in 1..Len(t.columns) : WellFormedColumn(t.columns[j])
WellFormed(d) ==
    /\ RequiredKeys \subseteq DOMAIN d
    /\ d.normalization_level = "3NF"
    /\ Len(d.tables) >= 1
    /\ \A i \in 1..Len(d.tables) : WellFormedTable(d.tables[i])
    /\ NonBlank(d.sql_schema)

\* C18: validate_db_design returns is_valid = true exactly for the dicts that
\* have the four keys, normalization_level "3NF", at least one table, in every
\* table a non-empty name and at least one column, in every column a non-empty
\* name and type, and an sql_schema that is non-empty after strip(); and
\* is_valid is true exactly when the issue list is empty.
C18_ValidIffRulesHold ==
    \A c \in Threads :
        Validated(c) =>
            /\ Result(c).is_valid <=> WellFormed(threads[c].db_design)
            /\ Result(c).is_valid <=> Result(c).issues = << >>

\* A design of two well-formed tables was found valid.
C18_Witness ==
    \E c \in Threads :
        /\ Validated(c) /\ Result(c).is_valid
        /\ Len(threads[c].db_design.tables) = 2
        /\ Len(threads[c].db_design.tables[2].columns) = 1

One(b) == IF b THEN 1 ELSE 0
NoTables(d) == ~Has(d, "tables") \/ d.tables = << >>
NoColumns(t) == ~Has(t, "columns") \/ t.columns = << >>
TableIndex(d) == IF NoTables(d) THEN {} ELSE 1..Len(d.tables)
ColumnIndex(d) ==
    { ij \in TableIndex(d) \X (1..MaxColumns) :
        ~NoColumns(d.tables[ij[1]]) /\ ij[2] <= Len(d.tables[ij[1]].columns) }
ColumnAt(d, ij) == d.tables[ij[1]].columns[ij[2]]
\* The number of rule violations of a dict, each counted on its own.
Violations(d) ==
    Cardinality({k \in RequiredKeys : ~Has(d, k)})
    + One(~Has(d, "normalization_level") \/ d.normalization_level # "3NF")
    + One(NoTables(d))
    + Cardinality({i \in TableIndex(d) : ~Filled(d.tables[i], "name")})
    + Cardinality({i \in TableIndex(d) : NoColumns(d.tables[i])})
    + Cardinality({ij \in ColumnIndex(d) : ~Filled(ColumnAt(d, ij), "name")})
    + Cardinality({ij \in ColumnIndex(d) : ~Filled(ColumnAt(d, ij), "type")})
    + One(~Has(d, "sql_schema") \/ ~NonBlank(d.sql_schema))

\* C19: the issue list holds one entry per violation: for each of the four
\* required keys, "Missing required key: <key>" once if it is missing and not
\* otherwise; the normalization issue, the no-tables issue and the empty-SQL
\* issue once each exactly when their rule is broken; a missing-name issue for
\* each table without a name; and in all as many issues as there are
\* violations, whatever else is wrong with the dict.
C19_CollectsAllViolations ==
    \A c \in Threads :
        Validated(c) =>
            LET d == threads[c].db_design
                issues == Result(c).issues
            IN /\ \A k \in RequiredKeys :
                      Count(issues, "Missing required key: " \o k) = One(~Has(d, k))
               /\ Count(issues, "Schema is not explicitly marked as 3NF")
                      = One(~Has(d, "normalization_level") \/ d.normalization_level # "3NF")
               /\ Count(issues, "No tables defined") = One(NoTables(d))
               /\ Count(issues, "SQL schema is empty")
                      = One(~Has(d, "sql_schema") \/ ~NonBlank(d.sql_schema))
               /\ \A i \in 1..MaxTables :
                      Count(issues, "Table " \o ToString(i) \o " is missing a name")
                          = One(i \in TableIndex(d) /\ ~Filled(d.tables[i], "name"))
               /\ Len(issues) = Violations(d)

\* A dict missing two required keys, with the wrong normalization level, a
\* nameless table without columns and a column without a type: each is reported.
C19_Witness ==
    \E c \in Threads :
        /\ Validated(c)
        /\ Cardinality({k \in RequiredKeys : ~Has(threads[c].db_design, k)}) = 2
        /\ Has(threads[c].db_design, "tables") /\ Len(threads[c].db_design.tables) = 2
        /\ Count(Result(c).issues, "Schema is not explicitly marked as 3NF") = 1
        /\ Count(Result(c).issues, "Table 1 is missing a name") = 1
        /\ Count(Result(c).issues, "Table '1' has no columns defined") = 1
        /\ Count(Result(c).issues, "Column 'email' in table 'users' is missing a type") = 1
        /\ Len(Result(c).issues) >= 7

TwoIssues == << "Schema is not explicitly marked as 3NF", "No tables defined" >>
Scenario2NF(d) ==
    /\ Has(d, "normalization_level") /\ d.normalization_level = "2NF"
    /\ Has(d, "tables") /\ d.tables = << >>

\* C20 as stated: for every dict with normalization_level "2NF" and tables [],
\* validate_db_design returns is_valid = false with exactly the two issues
\* "not 3NF" and "no tables".
C20_ExactlyTwoIssues ==
    \A c \in Threads :
        (Validated(c) /\ Scenario2NF(threads[c].db_design))
            => ~Result(c).is_valid /\ Result(c).issues = TwoIssues

\* C20, amended: for a dict with normalization_level "2NF" and tables [] that
\* has design_rationale and a non-blank sql_schema, validate_db_design returns
\* is_valid = false with exactly the two issues "not 3NF" and "no tables"; each
\* required key left out and a blank sql_schema add one issue each.
C20_TwoIssuesWhenOtherwiseComplete ==
    \A c \in Threads :
        (Validated(c) /\ Scenario2NF(threads[c].db_design)) =>
            LET d == threads[c].db_design
                rest == Cardinality({k \in RequiredKeys : ~Has(d, k)})
                        + One(~Has(d, "sql_schema") \/ ~NonBlank(d.sql_schema))
            IN /\ ~Result(c).is_valid
               /\ Count(Result(c).issues, TwoIssues[1]) = 1
               /\ Count(Result(c).issues, TwoIssues[2]) = 1
               /\ Len(Result(c).issues) = 2 + rest
               /\ rest = 0 => Result(c).issues = TwoIssues

\* The scenario on a dict that has all four keys and schema text: two issues.
C20_Witness ==
    \E c \in Threads :
        /\ Validated(c) /\ Scenario2NF(threads[c].db_design)
        /\ RequiredKeys \subseteq DOMAIN threads[c].db_design
        /\ NonBlank(threads[c].db_design.sql_schema)
        /\ ~Result(c).is_valid /\ Result(c).issues = TwoIssues

\* The framework label each language string of the model is entitled to: the
\* fixed table for a known language in any letter case, python's for a missing
\* one, and for any other language its own name in lower case.
FrameworkOf ==
    [l \in FinalizeLanguages |->
        CASE l \in {None, Some(""), Some("python"), Some("Python"), Some("PYTHON")} -> "fastapi"
          [] l \in {Some("node"), Some("Node"), Some("nodejs"), Some("NodeJS")} -> "express"
          [] l \in {Some("java"), Some("Java")} -> "spring-boot"
          [] l \in {Some("go"), Some("Go"), Some("GO")} -> "gin"
          [] l \in {Some("rust"), Some("Rust")} -> "rust"
          [] l = Some("kotlin") -> "kotlin"]
Unrecognized(l) == l \in {Some("rust"), Some("Rust"), Some("kotlin")}
FinalizeDone(c) == threads[c].kind = "finalize" /\ threads[c].pc = "done"

\* C21 as stated: every unrecognized language falls back to one generic default
\* framework, so two finalizations given unrecognized languages get the same label.
C21_GenericDefault ==
    \A c, d \in Threads :
        (FinalizeDone(c) /\ FinalizeDone(d)
            /\ Unrecognized(threads[c].language) /\ Unrecognized(threads[d].language))
        => threads[c].context[1].framework = threads[d].context[1].framework

\* C21: the language-to-framework mapping of finalization is total: every
\* finalization returns a result and has built a project context, whatever the
\* language; a known language in any letter case gets its fixed framework
\* (python->fastapi, node/nodejs->express, java->spring-boot, go->gin), a missing
\* or empty language is treated as python, and an unrecognized language gets its
\* own lower-cased name as the framework label.
C21_FrameworkMapping ==
    \A c \in Threads :
        FinalizeDone(c) =>
            /\ threads[c].result # None
            /\ threads[c].result[1].status \in {"SUCCESS", "FAILED"}
            /\ threads[c].context # None
            /\ threads[c].context[1].framework = FrameworkOf[threads[c].language]
            /\ (~StrTruthy(threads[c].language) => threads[c].context[1].language = "python")
\* A finalization given the unrecognized language "Rust" has returned with the
\* label "rust", and one given "NodeJS" with "express".
C21_Witness ==
    \E c, d \in Threads :
        /\ FinalizeDone(c) /\ threads[c].language = Some("Rust")
        /\ threads[c].context[1].framework = "rust"
        /\ FinalizeDone(d) /\ threads[d].language = Some("NodeJS")
        /\ threads[d].context[1].framework = "express"

\* Worker c returns from a run_orchestration call in this transition.  A call whose
\* return value equals the one the worker already held leaves every worker as it
\* was; a paused call never does, its token being new.
OrchestrateReturns(c) ==
    /\ calls' = calls + 1
    /\ threads'[c].kind = "orch"
    /\ \/ Steps(c)
       \/ threads' = threads /\ threads[c].result[1].status # "PENDING_APPROVAL"

\* C22: a run_orchestration call that returns SUCCESS or FAILED leaves the approval
\* store unchanged and issues no token; a call that returns PENDING_APPROVAL adds
\* exactly one entry, under the token it returns, which was not in the store
\* before, holding the prompt, the language of the request and the three
\* artifacts as the result carries them, and no decision; it changes no other entry.
C22_PendingEntryOnlyWhenPaused ==
    [][\A c \in Threads :
          OrchestrateReturns(c) =>
              LET r == threads'[c].result[1] IN
              IF r.status = "PENDING_APPROVAL"
              THEN /\ r.approval_token # None
                   /\ LET t == r.approval_token[1] IN
                      /\ t \notin DOMAIN pending_states /\ t \notin DOMAIN heap
                      /\ DOMAIN pending_states' = DOMAIN pending_states \cup {t}
                      /\ DOMAIN heap' = DOMAIN heap \cup {pending_states'[t]}
                      /\ \A u \in DOMAIN pending_states : pending_states'[u] = pending_states[u]
                      /\ \A u \in DOMAIN heap : heap'[u] = heap[u]
                      /\ approval_decisions' = approval_decisions
                      /\ LET entry == heap'[pending_states'[t]] IN
                         /\ entry.approval_token = t
                         /\ entry.user_prompt \in Prompts
                         /\ entry.language = threads'[c].language
                         /\ entry.requirements = dump_Requirements(r.requirements[1])
                         /\ entry.database_design = dump_Design(r.database_design[1])
                         /\ entry.review = dump_Review(r.review[1])
                         /\ entry.decision = None
              ELSE /\ r.status \in {"SUCCESS", "FAILED"}
                   /\ r.approval_token = None
                   /\ UNCHANGED store]_vars
\* A run given the language "Go" has paused and its entry is pending under the
\* returned token, while another run has ended in SUCCESS without a token.
C22_Witness ==
    \E c, d \in Threads :
        /\ Returned(c, "orch") /\ Result(c).status = "PENDING_APPROVAL"
        /\ threads[c].language = Some("Go")
        /\ Result(c).approval_token[1] \in DOMAIN pending_states
        /\ heap[pending_states[Result(c).approval_token[1]]].language = Some("Go")
        /\ Returned(d, "orch") /\ Result(d).status = "SUCCESS"
        /\ Result(d).approval_token = None

PushDone(c) == threads[c].kind = "push" /\ threads[c].pc = "done"

\* C23: a push that has its branch (reused when it existed) tolerates partial
\* success: whatever happens to the single files, every file of the list is gone
\* through, and the call returns success=true with files_created listing exactly
\* the paths written, in input order.
C23_PartialSuccessTolerated ==
    \A c \in Threads :
        (PushDone(c) /\ threads[c].ready) =>
            /\ threads[c].i = Len(threads[c].files) + 1
            /\ Result(c).success
            /\ Result(c).files_created = Some(threads[c].written)

\* The state keeps everything but its decision.
SameButDecision(after, before) == [after EXCEPT !.decision = before.decision] = before

\* C24: a pending state stays in the store, with its prompt, language and three
\* artifacts as created, until a continue call that has found a recorded
\* decision removes it: a step that removes the entry of a token is a step of
\* such a continue call on that token; only a submit_approval on the token
\* changes the decision of its state, to the decision submitted, and nothing else
\* of it; a continue call that finds no decision changes nothing in the store.
C24_PendingStatePersists ==
    [][/\ \A t \in DOMAIN pending_states :
            LET ref == pending_states[t] IN
            /\ ref \in DOMAIN heap'
            /\ SameButDecision(heap'[ref], heap[ref])
            /\ t \in DOMAIN pending_states' => pending_states'[t] = ref
            /\ t \notin DOMAIN pending_states' =>
                   \E c \in Threads : /\ Steps(c) /\ threads[c].kind = "cont"
                                      /\ threads[c].token = t /\ threads[c].decision # None
            /\ heap'[ref].decision # heap[ref].decision =>
                   \E c \in Threads :
                       /\ Steps(c) /\ threads[c].kind = "submit" /\ threads[c].token = t
                       /\ LET d == threads[c].decision_in[1]
                          IN heap'[ref].decision =
                                 Some(ApprovalDecision(d.approved, d.comments, d.approved_by))
       /\ \A c \in Threads :
            (Steps(c) /\ threads'[c].kind = "cont" /\ threads'[c].pc = "done"
                /\ threads'[c].result = Some(NoDecisionResult))
            => UNCHANGED store]_vars
\* A token is still pending, with a decision recorded on its state, after a
\* continue call on it returned the no-decision failure.
C24_Witness ==
    \E t \in DOMAIN pending_states, c \in Threads :
        /\ heap[pending_states[t]].decision # None
        /\ heap[pending_states[t]].user_prompt \in Prompts
        /\ Returned(c, "cont") /\ threads[c].token = t /\ Result(c) = NoDecisionResult

\* C25 as stated: submit_approval is atomic with respect to a consume of the same
\* token: a submit_approval that returns success does so while the pending state
\* of its token is still in the store, and no token whose pending state has been
\* removed has a decision left recorded.
C25_SubmitAtomicWithConsume ==
    /\ [][\A c \in Threads :
             (/\ Steps(c) /\ threads'[c].kind = "submit" /\ threads'[c].pc = "done"
              /\ threads'[c].result[1].success)
             => threads'[c].token \in DOMAIN pending_states']_vars
    /\ [](\A t \in DOMAIN approval_decisions : t \in DOMAIN pending_states)

StageOrder ==
    << "interpret_requirements", "design_database", "validate_db_design",
       "review_database_design", "propose_git_strategy", "create_branch" >>
IsStage(name) == \E i \in 1..Len(StageOrder) : StageOrder[i] = name
\* The stages a call has invoked, in the order it invoked them.
StagesOf(c) == SelectSeq(threads[c].log, IsStage)
\* An orchestration starts at the first stage, a continuation at the fifth.
FirstStage(c) == IF threads[c].kind = "orch" THEN 1 ELSE 5

\* C26: within one call the stages run in the order Requirements, Schema-Design,
\* Structural-Validation, Risk-Review, Repo-Strategy, branch creation, without a
\* gap and each at most once; a stage that was started finds the artifacts of the
\* stages before it in the result (the Schema-Design reviewed is a valid one), and
\* the branch is created only in a call that succeeds.
C26_StagesInOrder ==
    \A c \in Threads :
        (threads[c].kind \in {"orch", "cont"} /\ threads[c].result # None) =>
            LET r == threads[c].result[1]
                log == threads[c].log
            IN /\ Len(StagesOf(c)) <= Len(StageOrder) - FirstStage(c) + 1
               /\ \A i \in 1..Len(StagesOf(c)) : StagesOf(c)[i] = StageOrder[FirstStage(c) + i - 1]
               /\ \A i \in 1..Len(StageOrder) : Count(log, StageOrder[i]) <= 1
               /\ Invoked(log, "design_database") => r.requirements # None
               /\ Invoked(log, "validate_db_design") => r.database_design # None
               /\ Invoked(log, "review_database_design") => ValidAsDesigned(r)
               /\ Invoked(log, "propose_git_strategy") =>
                      r.requirements # None /\ r.database_design # None /\ r.review # None
               /\ Invoked(log, "create_branch") => r.status = "SUCCESS" /\ r.git # None
\* One run has stopped after its failing Schema-Design stage, and a continuation
\* has run the last two stages and succeeded.
C26_Witness ==
    \E a, b \in Threads :
        /\ Returned(a, "orch") /\ StagesOf(a) = SubSeq(StageOrder, 1, 2)
        /\ Result(a).status = "FAILED" /\ Result(a).stage = Some("database_design")
        /\ Returned(b, "cont") /\ StagesOf(b) = SubSeq(StageOrder, 5, 6)
        /\ Result(b).status = "SUCCESS"

LlmCall(c) == threads[c].kind = "llm"
LlmDone(c) == LlmCall(c) /\ threads[c].pc = "done"

\* C27: the retry policy of call_llm_structured and call_llm_raw is bounded: a
\* call makes at most max_retries attempts; attempts and waits alternate,
\* beginning and ending with an attempt, so that the call waits between attempts
\* and never after the last; a call that returns a value does so on its first
\* successful attempt, every attempt before it having failed; a call that raises
\* has made all max_retries attempts, all failed, and raises the error of the
\* last one.
C27_BoundedRetry ==
    \A c \in Threads :
        LlmCall(c) =>
            LET t == threads[c]
                attempts == Count(t.log, "attempt")
            IN /\ attempts <= t.max_retries
               /\ Len(t.temps) = attempts
               /\ \A i \in 1..Len(t.log) : t.log[i] = IF i % 2 = 1 THEN "attempt" ELSE "sleep"
               /\ LlmDone(c) =>
                      /\ t.log # << >> => t.log[Len(t.log)] = "attempt"
                      /\ (t.result[1].value # None) <=> (t.result[1].raised = None)
                      /\ t.result[1].value # None =>
                             attempts >= 1 /\ Len(t.errors) = attempts - 1
                      /\ t.result[1].raised # None =>
                             /\ attempts = t.max_retries /\ Len(t.errors) = attempts
                             /\ attempts >= 1 => t.result[1].raised = Some(t.errors[attempts])
\* A call with max_retries = 3 has failed three times, waited twice, and raised
\* the third error, which is not the first.
C27_Witness ==
    \E c \in Threads :
        /\ LlmDone(c) /\ threads[c].max_retries = 3
        /\ threads[c].log = << "attempt", "sleep", "attempt", "sleep", "attempt" >>
        /\ Len(threads[c].errors) = 3
        /\ threads[c].errors[1] # threads[c].errors[3]
        /\ threads[c].result[1].raised = Some(threads[c].errors[3])
        /\ threads[c].fn = "call_llm_structured"

\* C28 as stated: every retry (attempt 2 and later) uses a temperature higher
\* than the first attempt's, for every base temperature, and the temperature
\* never goes down from one attempt to the next.
C28_RetriesWarmer ==
    \A c \in Threads :
        LlmCall(c) =>
            LET temps == threads[c].temps
            IN /\ \A i \in 2..Len(temps) : temps[i] > temps[1]
               /\ \A i \in 1..(Len(temps) - 1) : temps[i] <= temps[i + 1]

\* The payload an OrchestrationResult must carry for its status, when returned by
\* a call of the given kind with the pending states ps in the store.
Payload(r, kind, ps) ==
    /\ r.status \in {"SUCCESS", "PENDING_APPROVAL", "FAILED", "HALTED"}
    /\ r.status = "SUCCESS" =>
           /\ r.requirements # None /\ r.database_design # None /\ r.review # None
           /\ r.git # None /\ DOMAIN r.git[1] = {"strategy", "execution"}
           /\ r.git[1].strategy.branch_name = StrategyMain.branch_name
           /\ r.stage = None
    /\ r.status = "PENDING_APPROVAL" =>
           /\ r.approval_token # None /\ r.approval_token[1] \in DOMAIN ps
           /\ r.requirements # None /\ r.database_design # None /\ r.review # None
    /\ r.status \in {"FAILED", "HALTED"} =>
           r.stage # None /\ r.issues # None /\ r.issues[1] # << >>
    /\ r.status # "PENDING_APPROVAL" => r.approval_token = None
    /\ kind = "orch" => r.status # "HALTED"
    /\ kind = "cont" => r.status # "PENDING_APPROVAL"

\* C29: every OrchestrationResult that run_orchestration or
\* run_orchestration_continue returns carries, at the moment it is returned, the
\* payload of its status: SUCCESS the three artifacts and a git record with
\* strategy and execution, and no stage; PENDING_APPROVAL a token whose pending
\* state is in the store, and the three artifacts; FAILED and HALTED a stage and a
\* non-empty issue list; no token unless PENDING_APPROVAL; never HALTED from
\* run_orchestration, never PENDING_APPROVAL from run_orchestration_continue.
C29_PayloadMatchesStatus ==
    [][\A c \in Threads :
          (Steps(c) /\ threads'[c].kind \in {"orch", "cont"} /\ threads'[c].pc = "done")
          => Payload(threads'[c].result[1], threads'[c].kind, pending_states')]_vars
\* A run has returned PENDING_APPROVAL with a token that is pending, and a
\* continuation has returned HALTED with its stage and issue.
C29_Witness ==
    \E c, d \in Threads :
        /\ Returned(c, "orch") /\ Result(c).status = "PENDING_APPROVAL"
        /\ Result(c).approval_token[1] \in DOMAIN pending_states
        /\ Returned(d, "cont") /\ Result(d).status = "HALTED"
        /\ Result(d).stage = Some("approval") /\ Result(d).issues = Some(<< RejectedMessage >>)

\* Nothing the store holds for token u changes in this transition.
Untouched(u) ==
    /\ (u \in DOMAIN heap) = (u \in DOMAIN heap')
    /\ u \in DOMAIN heap => heap'[u] = heap[u]
    /\ (u \in DOMAIN pending_states) = (u \in DOMAIN pending_states')
    /\ u \in DOMAIN pending_states => pending_states'[u] = pending_states[u]
    /\ (u \in DOMAIN approval_decisions) = (u \in DOMAIN approval_decisions')
    /\ u \in DOMAIN approval_decisions => approval_decisions'[u] = approval_decisions[u]

\* C30: independent runs do not interfere: a step of a submit_approval or
\* run_orchestration_continue call on a token leaves the pending state and the
\* recorded decision of every other token as they were, and a run_orchestration
\* call leaves the entries of every token issued before it as they were.
C30_RunsDoNotInterfere ==
    [][\A c \in Threads :
          /\ (Steps(c) /\ threads'[c].kind \in {"submit", "cont"})
                => \A u \in Tokens \ {threads'[c].token} : Untouched(u)
          /\ (calls' = calls + 1 /\ threads'[c].kind = "orch" /\ (Steps(c) \/ threads' = threads))
                => \A u \in Issued : Untouched(u)]_vars
\* Two tokens were issued; a continuation has consumed one of them, and the
\* other is still pending with its state.
C30_Witness ==
    \E c \in Threads, u \in Tokens :
        /\ Returned(c, "cont") /\ threads[c].token \in Issued
        /\ threads[c].token \notin DOMAIN pending_states
        /\ u # threads[c].token /\ u \in DOMAIN pending_states
        /\ heap[pending_states[u]].approval_token = u

====
